---- MODULE Spec2Model ----
(***************************************************************************)
(* A model of the geodesic engine of src/src/geodesic.c: the numeric       *)
(* kernel, the direct and inverse solvers and the polygon accumulator.     *)
(*                                                                         *)
(* Doubles.  A C double is modelled by a record                            *)
(*     [nan, neg, k, m]                                                    *)
(* that stands for NaN (nan = TRUE, neg its sign bit) or for the value     *)
(*     (-1)^neg * m * tiny^k ,   m a natural number, k in 0..2,            *)
(* so the two zeros (m = 0) are distinct values, and the quantities of     *)
(* order tiny = sqrt(DBL_MIN) that the code uses to break degeneracies at  *)
(* the poles are kept apart from ordinary values: x + tiny = x for any     *)
(* ordinary x, tiny * tiny = DBL_MIN, tiny^3 underflows to 0.  The         *)
(* significand m is rounded to MantBits bits (ties to even) by every       *)
(* arithmetic operation, as binary64 rounds to DBL_MANT_DIG bits.          *)
(*                                                                         *)
(* Units.  Angles in degrees are counted in units of qd degrees (a         *)
(* quarter turn), radians in units of qd * degree, so that the factor      *)
(* `degree` is 1; the library functions sin, cos, atan2, hypot, sqrt have  *)
(* their mathematical values, which on these angles are 0, 1, -1 and       *)
(* multiples of a quarter turn.  Lengths are counted in quarter meridians  *)
(* and areas in units of c2 * pi / 2.                                      *)
(***************************************************************************)
EXTENDS Integers, Sequences, FiniteSets, TLC

\* Bits of the significand of a model double (DBL_MANT_DIG, scaled down).
MantBits == 3

Abs(i) == IF i < 0 THEN -i ELSE i

RECURSIVE Pow2(_)
Pow2(n) == IF n <= 0 THEN 1 ELSE 2 * Pow2(n - 1)

--------------------------------------------------------------------------
(* The model doubles and IEEE arithmetic on them. *)

Mk(neg, k, m) == [nan |-> FALSE, neg |-> neg, k |-> IF m = 0 THEN 0 ELSE k, m |-> m]

D(i) == Mk(i < 0, 0, Abs(i))

Zero == D(0)

NegZero == Mk(TRUE, 0, 0)

One == D(1)

\* The value the static NaN holds once Init() has run: nan("0").
NaN == [nan |-> TRUE, neg |-> FALSE, k |-> 0, m |-> 0]

\* tiny = sqrt(realmin).
tiny == Mk(FALSE, 1, 1)

IsZero(x) == ~x.nan /\ x.m = 0

signbit(x) == x.neg

Sg(x) == IF x.m = 0 THEN 0 ELSE IF x.neg THEN -1 ELSE 1

\* The signed significand of a finite value.
SV(x) == IF x.neg THEN -x.m ELSE x.m

MagLt(x, y) ==
  \/ x.m = 0 /\ y.m > 0
  \/ x.m > 0 /\ y.m > 0 /\ (x.k > y.k \/ (x.k = y.k /\ x.m < y.m))

\* The comparisons of C: every one of them but != is false on a NaN.
Lt(x, y) ==
  /\ ~x.nan /\ ~y.nan
  /\ \/ Sg(x) < Sg(y)
     \/ Sg(x) = 1 /\ Sg(y) = 1 /\ MagLt(x, y)
     \/ Sg(x) = -1 /\ Sg(y) = -1 /\ MagLt(y, x)

Eq(x, y) ==
  /\ ~x.nan /\ ~y.nan
  /\ Sg(x) = Sg(y) /\ x.k = y.k /\ x.m = y.m

Le(x, y) == Lt(x, y) \/ Eq(x, y)

Gt(x, y) == Lt(y, x)

Ge(x, y) == Le(y, x)

Ne(x, y) == ~Eq(x, y)

\* Round a positive integer a to MantBits significant bits, ties to even;
\* q is the spacing tried, a power of two.
RECURSIVE FlMag(_, _)
FlMag(a, q) ==
  IF a < Pow2(MantBits) * q
  THEN LET n == a \div q
           r == a % q
       IN IF 2 * r < q THEN n * q
          ELSE IF 2 * r > q THEN (n + 1) * q
          ELSE IF n % 2 = 0 THEN n * q ELSE (n + 1) * q
  ELSE FlMag(a, 2 * q)

Fl(x) == IF x.nan THEN x ELSE [x EXCEPT !.m = FlMag(x.m, 1)]

Neg(x) == [x EXCEPT !.neg = ~x.neg]

fabs(x) == [x EXCEPT !.neg = FALSE]

copysign(x, y) == [x EXCEPT !.neg = y.neg]

Add(x, y) ==
  IF x.nan THEN x
  ELSE IF y.nan THEN y
  ELSE IF x.m = 0 /\ y.m = 0 THEN Mk(x.neg /\ y.neg, 0, 0)
  ELSE IF x.m = 0 THEN y
  ELSE IF y.m = 0 THEN x
  ELSE IF x.k < y.k THEN x
  ELSE IF y.k < x.k THEN y
  ELSE LET v == SV(x) + SV(y)
       IN IF v = 0 THEN Zero ELSE Fl(Mk(v < 0, x.k, Abs(v)))

Sub(x, y) == Add(x, Neg(y))

Mul(x, y) ==
  IF x.nan THEN x
  ELSE IF y.nan THEN y
  ELSE IF x.k + y.k > 2 THEN Mk(x.neg # y.neg, 0, 0)
  ELSE Fl(Mk(x.neg # y.neg, x.k + y.k, x.m * y.m))

\* x / y for the quotients the model meets: the divisor is not zero and the
\* quotient is a model double.
Div(x, y) ==
  CASE x.nan -> x
    [] y.nan -> y
    [] y.m = 0 /\ x.m = 0 -> NaN
    [] y.m # 0 /\ x.m = 0 -> Mk(x.neg # y.neg, 0, 0)
    [] y.m # 0 /\ x.m # 0 /\ x.k >= y.k /\ x.m % y.m = 0 ->
         Mk(x.neg # y.neg, x.k - y.k, x.m \div y.m)

sq(x) == Mul(x, x)

\* fmax and fmin return the other argument when one is a NaN.
fmax(x, y) == IF x.nan THEN y ELSE IF y.nan THEN x ELSE IF Ge(x, y) THEN x ELSE y

fmin(x, y) == IF x.nan THEN y ELSE IF y.nan THEN x ELSE IF Le(x, y) THEN x ELSE y

\* hypot(x, y) where the larger argument absorbs the other or one is zero.
hypot(x, y) ==
  CASE x.nan -> fabs(x)
    [] ~x.nan /\ y.nan -> fabs(y)
    [] ~x.nan /\ ~y.nan /\ y.m = 0 -> fabs(x)
    [] ~x.nan /\ ~y.nan /\ y.m # 0 /\ x.m = 0 -> fabs(y)
    [] ~x.nan /\ ~y.nan /\ y.m # 0 /\ x.m # 0 /\ x.k < y.k -> fabs(x)
    [] ~x.nan /\ ~y.nan /\ y.m # 0 /\ x.m # 0 /\ y.k < x.k -> fabs(y)

\* sqrt on NaN, negative values, 0 and 1.
sqrt(x) ==
  CASE x.nan -> x
    [] ~x.nan /\ x.m = 0 -> x
    [] ~x.nan /\ x.m # 0 /\ x.neg -> NaN
    [] ~x.nan /\ x.m = 1 /\ x.k = 0 /\ ~x.neg -> x
    [] ~x.nan /\ x.m = 1 /\ x.k = 2 /\ ~x.neg -> tiny

--------------------------------------------------------------------------
(* Program constants (src/src/geodesic.c, enum dms and Init). *)

\* qd = quarter turn / degree.
qd == 90

hd == 2 * qd

td == 2 * hd

\* A whole number of degrees as a model double: angles count units of qd.
Deg(d) == D(d \div qd)

maxit1 == 20

\* digits = DBL_MANT_DIG.
digits == 53

maxit2 == maxit1 + digits + 10

\* pi radians, in units of qd * degree.
pi == Deg(hd)

--------------------------------------------------------------------------
(* The numeric kernel. *)

\* The error-free sum: s = round(u + v), t = (u + v) - s.
SumxOut(s, up, vpp) ==
  [s |-> s, t |-> IF Ne(s, Zero) THEN Sub(Zero, Add(up, vpp)) ELSE s]

\* vpp = s - up; up -= u; vpp -= v.
SumxUp(u, v, s, up) == SumxOut(s, Sub(up, u), Sub(Sub(s, up), v))

\* up = s - v.
SumxSum(u, v, s) == SumxUp(u, v, s, Sub(s, v))

sumx(u, v) == SumxSum(u, v, Add(u, v))

\* The remainder of a / y to the nearest multiple of y, ties to the even
\* quotient (integers a >= 0, y > 0).
RemMag(a, y) ==
  LET n == a \div y
      r == a % y
  IN IF 2 * r < y THEN r
     ELSE IF 2 * r > y THEN r - y
     ELSE IF n % 2 = 0 THEN r ELSE r - y

\* The quotient remainder() and remquo() round to.
RemQuo(a, y) == (a - RemMag(a, y)) \div y

\* C's remainder(x, y) for a positive whole y; a zero result has x's sign.
remainder(x, y) ==
  IF x.nan THEN x
  ELSE IF x.k > 0 THEN x
  ELSE LET r == RemMag(x.m, y.m)
       IN IF r = 0 THEN Mk(x.neg, 0, 0) ELSE Mk(x.neg # (r < 0), 0, Abs(r))

Norm2By(sinx, cosx, r) == [s |-> Div(sinx, r), c |-> Div(cosx, r)]

norm2(sinx, cosx) == Norm2By(sinx, cosx, hypot(sinx, cosx))

AngNormalizeOf(x, y) ==
  IF Eq(fabs(y), Deg(hd)) THEN copysign(Deg(hd), x) ELSE y

\* The remainder alone.
AngNormalize_Remainder(x) == remainder(x, Deg(td))

AngNormalize(x) == AngNormalizeOf(x, remainder(x, Deg(td)))

\* A latitude beyond the pole is let through.
LatFix_Keep(x) == x

LatFix(x) == IF Gt(fabs(x), Deg(qd)) THEN NaN ELSE x

\* The sign of a result of 0 or +-180 degrees; s2 holds d and t.
AngDiffSign(x, y, s2) ==
  [d |-> IF Eq(s2.s, Zero) \/ Eq(fabs(s2.s), Deg(hd))
         THEN copysign(s2.s, IF Eq(s2.t, Zero) THEN Sub(y, x) ELSE Neg(s2.t))
         ELSE s2.s,
   e |-> s2.t]

AngDiffSum(x, y, s1) ==
  AngDiffSign(x, y, sumx(remainder(s1.s, Deg(td)), s1.t))

AngDiff(x, y) ==
  AngDiffSum(x, y, sumx(remainder(Neg(x), Deg(td)), remainder(y, Deg(td))))

\* AngRound: with z = 1/16 degree, y = fabs(x), w = z - y, the result is
\* copysign(w > 0 ? z - w : y, x).  A value of order tiny or 0 has w = z and
\* becomes a zero; a value of at least one unit has w < 0 and is kept; for a
\* NaN the test w > 0 fails and y is kept.
AngRound(x) ==
  IF x.nan THEN x
  ELSE IF x.m = 0 \/ x.k > 0 THEN copysign(Zero, x)
  ELSE x

\* sincosdx for a whole number of quarter turns: remquo leaves r = +-0 with
\* the sign of x and the quadrant q.
\* cosx += 0 and the sign of a zero sinx.
SinCosSigns(x, sc) ==
  [s |-> IF Eq(sc.s, Zero) THEN copysign(sc.s, x) ELSE sc.s,
   c |-> Add(sc.c, Zero)]

\* switch ((unsigned)q & 3U) on s = sin(r) and c = cos(r).
SinCosQuadrant(x, q, s, c) ==
  SinCosSigns(x, CASE q % 4 = 0 -> [s |-> s, c |-> c]
                   [] q % 4 = 1 -> [s |-> c, c |-> Neg(s)]
                   [] q % 4 = 2 -> [s |-> Neg(s), c |-> Neg(c)]
                   [] q % 4 = 3 -> [s |-> Neg(c), c |-> s])

sincosdx(x) ==
  IF x.nan THEN [s |-> x, c |-> x]
  ELSE SinCosQuadrant(x, SV(x), copysign(Zero, x), One)

\* sincosde(x, t): the same after r = AngRound(remquo(x, qd) + t).
sincosde(x, t) ==
  IF x.nan \/ t.nan THEN [s |-> NaN, c |-> NaN]
  ELSE SinCosQuadrant(x, SV(x), AngRound(Add(copysign(Zero, x), t)), One)

\* atan2(y, x) in units of qd * degree, for arguments one of which absorbs
\* the other: the result is a whole number of quarter turns, or of the order
\* of y / x.
atan2(y, x) ==
  CASE y.nan -> y
    [] ~y.nan /\ x.nan -> x
    [] ~y.nan /\ ~x.nan /\ y.m = 0 ->
         IF x.neg THEN copysign(pi, y) ELSE copysign(Zero, y)
    [] ~y.nan /\ ~x.nan /\ y.m # 0 /\ (x.m = 0 \/ x.k > y.k) ->
         copysign(Deg(qd), y)
    [] ~y.nan /\ ~x.nan /\ y.m # 0 /\ x.m # 0 /\ x.k < y.k ->
         IF x.neg THEN copysign(pi, y) ELSE Div(y, x)

\* switch (q) on ang = atan2(y, x) of the first octants.
Atan2Ang(y, q, ang) ==
  CASE q = 1 -> Sub(copysign(Deg(hd), y), ang)
    [] q = 2 -> Sub(Deg(qd), ang)
    [] q = 3 -> Add(Neg(Deg(qd)), ang)
    [] OTHER -> ang

\* if (signbit(x)) { x = -x; ++q; }
Atan2Quad(y, x, q) ==
  Atan2Ang(y, IF signbit(x) THEN q + 1 ELSE q,
           atan2(y, IF signbit(x) THEN Neg(x) ELSE x))

\* if (fabs(y) > fabs(x)) { swapx(&x, &y); q = 2; }
Atan2Swap(y, x, sw) ==
  Atan2Quad(IF sw THEN x ELSE y, IF sw THEN y ELSE x, IF sw THEN 2 ELSE 0)

atan2dx(y, x) == Atan2Swap(y, x, Gt(fabs(y), fabs(x)))

--------------------------------------------------------------------------
(* The series of geodesic.c, 1087-1108 and 1487-1746.  Coefficient arrays  *)
(* are functions from the C index to a double.                             *)

nA1 == 6

nC1 == 6

nC1p == 6

nA2 == 6

nC2 == 6

nA3 == 6

nC3 == 6

nC4 == 6

\* A table of whole numbers as doubles.
DS(s) == [i \in 1 .. Len(s) |-> D(s[i])]

RECURSIVE Horner(_, _, _, _)
Horner(y, p, i, x) ==
  IF i > Len(p) THEN y ELSE Horner(Add(Mul(y, x), p[i]), p, i + 1, x)

\* polyvalx(N, p, x) = p[0] x^N + ... + p[N]; p is the table from p[0] on.
polyvalx(N, p, x) == IF N < 0 THEN Zero ELSE Horner(p[1], SubSeq(p, 1, N + 1), 2, x)

RECURSIVE Clenshaw(_, _, _, _, _, _)
Clenshaw(ar, y0, y1, c, k, n) ==
  IF n = 0 THEN [y0 |-> y0, y1 |-> y1]
  ELSE LET y1n == Add(Sub(Mul(ar, y0), y1), c[k - 1])
           y0n == Add(Sub(Mul(ar, y1n), y0), c[k - 2])
       IN Clenshaw(ar, y0n, y1n, c, k - 2, n - 1)

SinCosSeries(sinp, sinx, cosx, c, n) ==
  LET top == n + (IF sinp THEN 1 ELSE 0)
      ar  == Mul(Mul(D(2), Sub(cosx, sinx)), Add(cosx, sinx))
      odd == n % 2 = 1
      r   == Clenshaw(ar, IF odd THEN c[top - 1] ELSE Zero, Zero, c,
                      IF odd THEN top - 1 ELSE top, n \div 2)
  IN IF sinp THEN Mul(Mul(Mul(D(2), sinx), cosx), r.y0)
     ELSE Mul(cosx, Sub(r.y0, r.y1))

\* The loop shared by C1f, C1pf and C2f: c[l] = d * polyvalx(m, coeff + o,
\* eps2) / coeff[o + m + 1] with d = eps^l, for l = 1..n.
RECURSIVE EpsSeries(_, _, _, _, _, _, _)
EpsSeries(coeff, n, eps, d, o, l, c) ==
  IF l > n THEN c
  ELSE LET m == (n - l) \div 2
           v == Div(Mul(d, polyvalx(m, DS(SubSeq(coeff, o + 1, o + m + 1)), sq(eps))),
                    D(coeff[o + m + 2]))
       IN EpsSeries(coeff, n, eps, Mul(d, eps), o + m + 2, l + 1,
                    [c EXCEPT ![l] = v])

A1m1f(eps) ==
  LET coeff == <<1, 4, 64, 0, 256>>
      m     == nA1 \div 2
      t     == Div(polyvalx(m, DS(coeff), sq(eps)), D(coeff[m + 2]))
  IN Div(Add(t, eps), Sub(One, eps))

C1coeff ==
  <<-1, 6, -16, 32, -9, 64, -128, 2048, 9, -16, 768, 3, -5, 512, -7, 1280,
    -7, 2048>>
C1f(eps) == EpsSeries(C1coeff, nC1, eps, eps, 0, 1, [l \in 1 .. nC1 |-> Zero])

C1pcoeff ==
  <<205, -432, 768, 1536, 4005, -4736, 3840, 12288, -225, 116, 384, -7173,
    2695, 7680, 3467, 7680, 38081, 61440>>
C1pf(eps) == EpsSeries(C1pcoeff, nC1p, eps, eps, 0, 1, [l \in 1 .. nC1p |-> Zero])

A2m1f(eps) ==
  LET coeff == <<-11, -28, -192, 0, 256>>
      m     == nA2 \div 2
      t     == Div(polyvalx(m, DS(coeff), sq(eps)), D(coeff[m + 2]))
  IN Div(Sub(t, eps), Add(One, eps))

C2coeff ==
  <<1, 2, 16, 32, 35, 64, 384, 2048, 15, 80, 768, 7, 35, 512, 63, 1280,
    77, 2048>>
C2f(eps) == EpsSeries(C2coeff, nC2, eps, eps, 0, 1, [l \in 1 .. nC2 |-> Zero])

\* A quotient x / q by a positive whole q that is no whole number.  On the
\* sphere every such quotient meets a factor 0 before it is used, which
\* leaves only its sign and its being a NaN to matter: the model keeps x.
DivPos(x, q) == IF q = 1 THEN Div(x, D(q)) ELSE x

A3coeffTab ==
  <<-3, 128, -2, -3, 64, -1, -3, -1, 16, 3, -1, -2, 8, 1, -1, 2, 1, 1>>

\* A3coeff: A3x[k] for k = 0 .. nA3 - 1, the coefficient of eps^(nA3-1-k).
RECURSIVE A3loop(_, _, _, _, _)
A3loop(n, j, o, k, x) ==
  IF j < 0 THEN x
  ELSE LET m == IF nA3 - j - 1 < j THEN nA3 - j - 1 ELSE j
       IN A3loop(n, j - 1, o + m + 2, k + 1,
                 [x EXCEPT ![k] = DivPos(polyvalx(m, DS(SubSeq(A3coeffTab, o + 1, o + m + 1)), n),
                                         A3coeffTab[o + m + 2])])

A3coeff(n) == A3loop(n, nA3 - 1, 0, 0, [k \in 0 .. nA3 - 1 |-> Zero])

C3coeffTab ==
  <<3, 128, 2, 5, 128, -1, 3, 3, 64, -1, 0, 1, 8, -1, 1, 4, 5, 256, 1, 3,
    128, -3, -2, 3, 64, 1, -3, 2, 32, 7, 512, -10, 9, 384, 5, -9, 5, 192,
    7, 512, -14, 7, 512, 21, 2560>>

\* C3coeff: for l = 1 .. nC3 - 1 and j = nC3 - 1 down to l.
RECURSIVE C3loop(_, _, _, _, _, _)
C3loop(n, l, j, o, k, x) ==
  IF l >= nC3 THEN x
  ELSE IF j < l THEN C3loop(n, l + 1, nC3 - 1, o, k, x)
  ELSE LET m == IF nC3 - j - 1 < j THEN nC3 - j - 1 ELSE j
       IN C3loop(n, l, j - 1, o + m + 2, k + 1,
                 [x EXCEPT ![k] = DivPos(polyvalx(m, DS(SubSeq(C3coeffTab, o + 1, o + m + 1)), n),
                                         C3coeffTab[o + m + 2])])

nC3x == (nC3 * (nC3 - 1)) \div 2

C3coeff(n) == C3loop(n, 1, nC3 - 1, 0, 0, [k \in 0 .. nC3x - 1 |-> Zero])

C4coeffTab ==
  <<97, 15015, 1088, 156, 45045, -224, -4784, 1573, 45045, -10656, 14144,
    -4576, -858, 45045, 64, 624, -4576, 6864, -3003, 15015, 100, 208, 572,
    3432, -12012, 30030, 45045, 1, 9009, -2944, 468, 135135, 5792, 1040,
    -1287, 135135, 5952, -11648, 9152, -2574, 135135, -64, -624, 4576,
    -6864, 3003, 135135, 8, 10725, 1856, -936, 225225, -8448, 4992, -1144,
    225225, -1440, 4160, -4576, 1716, 225225, -136, 63063, 1024, -208,
    105105, 3584, -3328, 1144, 315315, -128, 135135, -2560, 832, 405405,
    128, 99099>>

\* C4coeff: for l = 0 .. nC4 - 1 and j = nC4 - 1 down to l.
RECURSIVE C4loop(_, _, _, _, _, _)
C4loop(n, l, j, o, k, x) ==
  IF l >= nC4 THEN x
  ELSE IF j < l THEN C4loop(n, l + 1, nC4 - 1, o, k, x)
  ELSE LET m == nC4 - j - 1
       IN C4loop(n, l, j - 1, o + m + 2, k + 1,
                 [x EXCEPT ![k] = DivPos(polyvalx(m, DS(SubSeq(C4coeffTab, o + 1, o + m + 1)), n),
                                         C4coeffTab[o + m + 2])])

nC4x == (nC4 * (nC4 + 1)) \div 2

C4coeff(n) == C4loop(n, 0, nC4 - 1, 0, 0, [k \in 0 .. nC4x - 1 |-> Zero])

\* The table x from its C index o on, as polyvalx takes it.
From(x, o, len) == [i \in 1 .. len |-> x[o + i - 1]]

A3f(g, eps) == polyvalx(nA3 - 1, From(g.A3x, 0, nA3), eps)

RECURSIVE C3floop(_, _, _, _, _, _)
C3floop(g, eps, mult, o, l, c) ==
  IF l >= nC3 THEN c
  ELSE LET m  == nC3 - l - 1
           mu == Mul(mult, eps)
       IN C3floop(g, eps, mu, o + m + 1, l + 1,
                  [c EXCEPT ![l] = Mul(mu, polyvalx(m, From(g.C3x, o, m + 1), eps))])

C3f(g, eps) == C3floop(g, eps, One, 0, 1, [l \in 1 .. nC3 - 1 |-> Zero])

RECURSIVE C4floop(_, _, _, _, _, _)
C4floop(g, eps, mult, o, l, c) ==
  IF l >= nC4 THEN c
  ELSE LET m == nC4 - l - 1
       IN C4floop(g, eps, Mul(mult, eps), o + m + 1, l + 1,
                  [c EXCEPT ![l] = Mul(mult, polyvalx(m, From(g.C4x, o, m + 1), eps))])

C4f(g, eps) == C4floop(g, eps, One, 0, 0, [l \in 0 .. nC4 - 1 |-> Zero])

--------------------------------------------------------------------------
(* Tolerances (Init) and the ellipsoid (geod_init).                        *)
(*                                                                         *)
(* epsilon and the tolerances made from it are only compared with.  The    *)
(* model places them, in their order, between the few multiples of tiny    *)
(* it meets and 1: epsilon stands as 2^4 tiny, sqrt(epsilon) as 2^13 tiny. *)

epsilon == Mk(FALSE, 1, Pow2(4))

tol0 == epsilon

tol1 == Mul(D(200), tol0)

tol2 == Mk(FALSE, 1, Pow2(13))

tolb == tol0

xthresh == Mul(D(1000), tol2)

\* A constant fraction the code compares f or n with (0.001, 0.01, 0.1):
\* above every tolerance and below 1.
Fraction == Mk(FALSE, 1, Pow2(25))

\* geod_init for a sphere: the branch e2 == 0 of c2.  etol2 is 0.1 * tol2 /
\* sqrt(max(0.001, |f|) * min(1, 1 - f/2) / 2), between tol2 and xthresh.
geod_init(a, f) ==
  LET f1  == Sub(One, f)
      e2  == Mul(f, Sub(D(2), f))
      ep2 == Div(e2, sq(f1))
      n   == Div(f, Sub(D(2), f))
      b   == Mul(a, f1)
      c2  == CASE Eq(e2, Zero) -> Div(Add(sq(a), Mul(sq(b), One)), D(2))
  IN [a |-> a, f |-> f, f1 |-> f1, e2 |-> e2, ep2 |-> ep2, n |-> n, b |-> b,
      c2 |-> c2, etol2 |-> Mul(D(2), tol2),
      A3x |-> A3coeff(n), C3x |-> C3coeff(n), C4x |-> C4coeff(n)]

\* The unit sphere: a = 1 length unit, f = 0.
Sphere == geod_init(One, Zero)

--------------------------------------------------------------------------
(* Masks and flags.  A mask is the set of its bits: the eight output bits  *)
(* of OUT_ALL and the five capability bits of CAP_ALL (enum captype,       *)
(* geodesic.c 88-97; enum geod_mask and enum geod_flags of geodesic.h).    *)

CAP_NONE == {}

CAP_C1 == {"C1"}

CAP_C1p == {"C1p"}

CAP_C2 == {"C2"}

CAP_C3 == {"C3"}

CAP_C4 == {"C4"}

CAP_ALL == {"C1", "C1p", "C2", "C3", "C4"}

OUT_ALL ==
  {"LATITUDE", "LONGITUDE", "AZIMUTH", "DISTANCE", "DISTANCE_IN",
   "REDUCEDLENGTH", "GEODESICSCALE", "AREA"}

GEOD_NONE == {}

GEOD_LATITUDE == {"LATITUDE"}

GEOD_LONGITUDE == {"LONGITUDE"} \cup CAP_C3

GEOD_AZIMUTH == {"AZIMUTH"}

GEOD_DISTANCE == {"DISTANCE"} \cup CAP_C1

GEOD_DISTANCE_IN == {"DISTANCE_IN"} \cup CAP_C1 \cup CAP_C1p

GEOD_REDUCEDLENGTH == {"REDUCEDLENGTH"} \cup CAP_C1 \cup CAP_C2

GEOD_GEODESICSCALE == {"GEODESICSCALE"} \cup CAP_C1 \cup CAP_C2

GEOD_AREA == {"AREA"} \cup CAP_C4

GEOD_ALL == OUT_ALL \cup CAP_ALL

GEOD_NOFLAGS == {}

GEOD_ARCMODE == {"ARCMODE"}

GEOD_LONG_UNROLL == {"LONG_UNROLL"}

\* a & b is not 0.
Has(a, b) == a \cap b # {}

\* The output locations a caller can pass: a call takes the set of those
\* whose pointer is not null.
Ptrs == {"lat2", "lon2", "azi2", "s12", "m12", "M12", "M21", "S12"}

\* outmask as geod_genposition and geod_gendirect build it from the pointers.
PosMask(ptrs) ==
  (IF "lat2" \in ptrs THEN GEOD_LATITUDE ELSE GEOD_NONE) \cup
  (IF "lon2" \in ptrs THEN GEOD_LONGITUDE ELSE GEOD_NONE) \cup
  (IF "azi2" \in ptrs THEN GEOD_AZIMUTH ELSE GEOD_NONE) \cup
  (IF "s12" \in ptrs THEN GEOD_DISTANCE ELSE GEOD_NONE) \cup
  (IF "m12" \in ptrs THEN GEOD_REDUCEDLENGTH ELSE GEOD_NONE) \cup
  (IF "M12" \in ptrs \/ "M21" \in ptrs THEN GEOD_GEODESICSCALE ELSE GEOD_NONE) \cup
  (IF "S12" \in ptrs THEN GEOD_AREA ELSE GEOD_NONE)

--------------------------------------------------------------------------
(* The geodesic line (geodesic.c, 328-684). *)

\* degree = pi / hd: 1 in the model's unit of radians.
degree == Div(pi, Deg(hd))

\* sin and cos of a whole number of quarter turns, of 0 and of a value of
\* the order of tiny.
sin(x) ==
  IF x.nan THEN x
  ELSE IF x.m = 0 \/ x.k > 0 THEN x
  ELSE CASE SV(x) % 4 = 0 -> copysign(Zero, x)
         [] SV(x) % 4 = 1 -> One
         [] SV(x) % 4 = 2 -> copysign(Zero, x)
         [] SV(x) % 4 = 3 -> Neg(One)

cos(x) ==
  IF x.nan THEN x
  ELSE IF x.m = 0 \/ x.k > 0 THEN One
  ELSE CASE SV(x) % 4 = 0 -> One
         [] SV(x) % 4 = 1 -> Zero
         [] SV(x) % 4 = 2 -> Neg(One)
         [] SV(x) % 4 = 3 -> Zero

\* A field of a struct the code has not stored to: a marker that no
\* operation yields (the code reads such a field under no caps), and an
\* array of them.
Unset == [nan |-> TRUE, neg |-> TRUE, k |-> 0, m |-> 0]

UnsetArr(n) == [i \in 1 .. n |-> Unset]

\* The reduced latitude of lat: sincosdx(lat), sbet *= f1, norm2, and
\* cbet = fmax(tiny, cbet) ("Ensure cbet = +epsilon at poles").
BetaNorm(nb) == [s |-> nb.s, c |-> fmax(tiny, nb.c)]

BetaOf(sc, f1) == BetaNorm(norm2(Mul(sc.s, f1), sc.c))

Beta(lat, f1) == BetaOf(sincosdx(lat), f1)

\* geod_lineinit_int, 356-375: alp0, sig1 and omg1, k2 and eps from the
\* reduced latitude bet.
LineEps(k2) == Div(k2, Add(Mul(D(2), Add(One, sqrt(Add(One, k2)))), k2))

LineK2(g, x) ==
  [x EXCEPT !.k2 = Mul(sq(x.calp0), g.ep2),
            !.eps = LineEps(Mul(sq(x.calp0), g.ep2))]

LineSig1(x, sbet1, csig0) ==
  [x EXCEPT !.ssig1 = norm2(sbet1, csig0).s,
            !.csig1 = norm2(sbet1, csig0).c,
            !.comg1 = csig0]

LineAlp0(g, salp1, calp1, bet) ==
  LineK2(g,
    LineSig1([dn1 |-> sqrt(Add(One, Mul(g.ep2, sq(bet.s)))),
              salp0 |-> Mul(salp1, bet.c),
              calp0 |-> hypot(calp1, Mul(salp1, bet.s)),
              somg1 |-> Mul(Mul(salp1, bet.c), bet.s),
              ssig1 |-> Zero, csig1 |-> Zero, comg1 |-> Zero,
              k2 |-> Zero, eps |-> Zero],
             bet.s,
             IF Ne(bet.s, Zero) \/ Ne(calp1, Zero) THEN Mul(bet.c, calp1) ELSE One))

\* geod_lineinit_int, 377-388: the block of CAP_C1.
LineC1tau(x, A1m1, C1a, B11) ==
  [A1m1 |-> A1m1, C1a |-> C1a, B11 |-> B11,
   stau1 |-> Add(Mul(x.ssig1, cos(B11)), Mul(x.csig1, sin(B11))),
   ctau1 |-> Sub(Mul(x.csig1, cos(B11)), Mul(x.ssig1, sin(B11)))]

LineC1B(x, A1m1, C1a) ==
  LineC1tau(x, A1m1, C1a, SinCosSeries(TRUE, x.ssig1, x.csig1, C1a, nC1))

LineC1(x, caps) ==
  IF Has(caps, CAP_C1) THEN LineC1B(x, A1m1f(x.eps), C1f(x.eps))
  ELSE [A1m1 |-> Unset, C1a |-> UnsetArr(nC1), B11 |-> Unset, stau1 |-> Unset,
        ctau1 |-> Unset]

\* 390-397: the blocks of CAP_C1p and CAP_C2.
LineC2B(x, A2m1, C2a) ==
  [A2m1 |-> A2m1, C2a |-> C2a,
   B21 |-> SinCosSeries(TRUE, x.ssig1, x.csig1, C2a, nC2)]

LineC2(x, caps) ==
  [C1pa |-> IF Has(caps, CAP_C1p) THEN C1pf(x.eps) ELSE UnsetArr(nC1p)] @@
  (IF Has(caps, CAP_C2) THEN LineC2B(x, A2m1f(x.eps), C2f(x.eps))
   ELSE [A2m1 |-> Unset, C2a |-> UnsetArr(nC2), B21 |-> Unset])

\* 399-410: the blocks of CAP_C3 and CAP_C4.
LineC3B(g, x, C3a) ==
  [C3a |-> C3a,
   A3c |-> Mul(Mul(Neg(g.f), x.salp0), A3f(g, x.eps)),
   B31 |-> SinCosSeries(TRUE, x.ssig1, x.csig1, C3a, nC3 - 1)]

LineC3(g, x, caps) ==
  IF Has(caps, CAP_C3) THEN LineC3B(g, x, C3f(g, x.eps))
  ELSE [C3a |-> UnsetArr(nC3 - 1), A3c |-> Unset, B31 |-> Unset]

LineC4B(g, x, C4a) ==
  [C4a |-> C4a,
   A4 |-> Mul(Mul(Mul(sq(g.a), x.calp0), x.salp0), g.e2),
   B41 |-> SinCosSeries(FALSE, x.ssig1, x.csig1, C4a, nC4)]

LineC4(g, x, caps) ==
  IF Has(caps, CAP_C4) THEN LineC4B(g, x, C4f(g, x.eps))
  ELSE [C4a |-> UnsetArr(nC4), A4 |-> Unset, B41 |-> Unset]

LineStruct(g, lat1, lon1, azi1, salp1, calp1, caps, x) ==
  [a |-> g.a, f |-> g.f, b |-> g.b, c2 |-> g.c2, f1 |-> g.f1, caps |-> caps,
   lat1 |-> lat1, lon1 |-> lon1, azi1 |-> azi1, salp1 |-> salp1, calp1 |-> calp1,
   dn1 |-> x.dn1, salp0 |-> x.salp0, calp0 |-> x.calp0,
   ssig1 |-> x.ssig1, somg1 |-> x.somg1, csig1 |-> x.csig1, comg1 |-> x.comg1,
   k2 |-> x.k2, a13 |-> NaN, s13 |-> NaN]
  @@ LineC1(x, caps) @@ LineC2(x, caps) @@ LineC3(g, x, caps) @@ LineC4(g, x, caps)

LineOf(g, lat1, lon1, azi1, salp1, calp1, caps) ==
  LineStruct(g, lat1, lon1, azi1, salp1, calp1, caps,
             LineAlp0(g, salp1, calp1, Beta(AngRound(lat1), g.f1)))

geod_lineinit_int(g, lat1, lon1, azi1, salp1, calp1, caps) ==
  LineOf(g, LatFix(lat1), lon1, azi1, salp1, calp1,
         (IF caps # {} THEN caps ELSE GEOD_DISTANCE_IN \cup GEOD_LONGITUDE)
         \cup GEOD_LATITUDE \cup GEOD_AZIMUTH \cup GEOD_LONG_UNROLL)

LineInitAzi(g, lat1, lon1, azi1, sc, caps) ==
  geod_lineinit_int(g, lat1, lon1, azi1, sc.s, sc.c, caps)

LineInitNorm(g, lat1, lon1, azi1, caps) ==
  LineInitAzi(g, lat1, lon1, azi1, sincosdx(AngRound(azi1)), caps)

geod_lineinit(g, lat1, lon1, azi1, caps) ==
  LineInitNorm(g, lat1, lon1, AngNormalize(azi1), caps)

\* geod_genposition, 467-515: sig12 and its sine and cosine.  The
\* correction of sig12 for |f| > 0.01 is outside the sphere.
PosSig12Of(sig12, B12) ==
  [sig12 |-> sig12, ssig12 |-> sin(sig12), csig12 |-> cos(sig12), B12 |-> B12]

PosB12(l, tau12, B12) == PosSig12Of(Sub(tau12, Sub(B12, l.B11)), B12)

PosTau(l, tau12, s, c) ==
  PosB12(l, tau12,
         Neg(SinCosSeries(TRUE,
                          Add(Mul(l.stau1, c), Mul(l.ctau1, s)),
                          Sub(Mul(l.ctau1, c), Mul(l.stau1, s)),
                          l.C1pa, nC1p)))

PosDist(l, tau12) == PosTau(l, tau12, sin(tau12), cos(tau12))

PosSig12(l, arcmode, s12_a12) ==
  CASE arcmode ->
         [sig12 |-> Mul(s12_a12, degree), ssig12 |-> sincosdx(s12_a12).s,
          csig12 |-> sincosdx(s12_a12).c, B12 |-> Zero]
    [] ~arcmode /\ ~Gt(fabs(l.f), Fraction) ->
         PosDist(l, Div(s12_a12, Mul(l.b, Add(One, l.A1m1))))

\* 517-534: sig2, bet2 and alp2.
PosBet2(l, x, ssig2, csig2, cbet2) ==
  x @@ [ssig2 |-> ssig2,
        csig2 |-> IF Eq(cbet2, Zero) THEN tiny ELSE csig2,
        dn2 |-> sqrt(Add(One, Mul(l.k2, sq(ssig2)))),
        sbet2 |-> Mul(l.calp0, ssig2),
        cbet2 |-> IF Eq(cbet2, Zero) THEN tiny ELSE cbet2,
        salp2 |-> l.salp0,
        calp2 |-> Mul(l.calp0, IF Eq(cbet2, Zero) THEN tiny ELSE csig2)]

PosSig2Of(l, x, ssig2, csig2) ==
  PosBet2(l, x, ssig2, csig2, hypot(l.salp0, Mul(l.calp0, csig2)))

\* B12 and AB1 come between (521-525), from sig2 before csig2 is touched.
PosAB1(l, arcmode, useB, x, ssig2, csig2) ==
  LET B12 == IF useB /\ (arcmode \/ Gt(fabs(l.f), Fraction))
             THEN SinCosSeries(TRUE, ssig2, csig2, l.C1a, nC1)
             ELSE x.B12
  IN PosSig2Of(l, [x EXCEPT !.B12 = B12] @@
                  [AB1 |-> IF useB THEN Mul(Add(One, l.A1m1), Sub(B12, l.B11))
                           ELSE Zero],
               ssig2, csig2)

PosSig2(l, arcmode, useB, x) ==
  PosAB1(l, arcmode, useB, x,
         Add(Mul(l.ssig1, x.csig12), Mul(l.csig1, x.ssig12)),
         Sub(Mul(l.csig1, x.csig12), Mul(l.ssig1, x.ssig12)))

\* 541-558: the longitude.
PosLon2(l, unroll, lon12) ==
  IF unroll THEN Add(l.lon1, lon12)
  ELSE AngNormalize(Add(AngNormalize(l.lon1), AngNormalize(lon12)))

PosLam12(l, x, omg12) ==
  Add(omg12,
      Mul(l.A3c,
          Add(x.sig12,
              Sub(SinCosSeries(TRUE, x.ssig2, x.csig2, l.C3a, nC3 - 1), l.B31))))

PosOmg12(l, unroll, x, E, somg2, comg2) ==
  IF unroll
  THEN Mul(E, Add(Sub(x.sig12, Sub(atan2(x.ssig2, x.csig2),
                                   atan2(l.ssig1, l.csig1))),
                  Sub(atan2(Mul(E, somg2), comg2),
                      atan2(Mul(E, l.somg1), l.comg1))))
  ELSE atan2(Sub(Mul(somg2, l.comg1), Mul(comg2, l.somg1)),
             Add(Mul(comg2, l.comg1), Mul(somg2, l.somg1)))

PosLongitude(l, unroll, x) ==
  PosLon2(l, unroll,
          Div(PosLam12(l, x, PosOmg12(l, unroll, x, copysign(One, l.salp0),
                                      Mul(l.salp0, x.ssig2), x.csig2)),
              degree))

\* 566-582: the reduced length and the geodesic scales.
PosJ12(l, x, AB2) ==
  Add(Mul(Sub(l.A1m1, l.A2m1), x.sig12), Sub(x.AB1, AB2))

PosJ12Of(l, x) ==
  PosJ12(l, x, Mul(Add(One, l.A2m1),
                   Sub(SinCosSeries(TRUE, x.ssig2, x.csig2, l.C2a, nC2), l.B21)))

Posm12(l, x, J12) ==
  Mul(l.b, Sub(Sub(Mul(x.dn2, Mul(l.csig1, x.ssig2)),
                   Mul(l.dn1, Mul(l.ssig1, x.csig2))),
               Mul(Mul(l.csig1, x.csig2), J12)))

PosT(l, x) ==
  Div(Mul(Mul(l.k2, Sub(x.ssig2, l.ssig1)), Add(x.ssig2, l.ssig1)),
      Add(l.dn1, x.dn2))

PosM12(l, x, J12, t) ==
  Add(x.csig12,
      Div(Mul(Sub(Mul(t, x.ssig2), Mul(x.csig2, J12)), l.ssig1), l.dn1))

PosM21(l, x, J12, t) ==
  Sub(x.csig12,
      Div(Mul(Sub(Mul(t, l.ssig1), Mul(l.csig1, J12)), x.ssig2), x.dn2))

\* 584-607: the area.
PosSalp12(l, x) ==
  IF Eq(l.calp0, Zero) \/ Eq(l.salp0, Zero)
  THEN Sub(Mul(x.salp2, l.calp1), Mul(x.calp2, l.salp1))
  ELSE Mul(Mul(l.calp0, l.salp0),
           IF Le(x.csig12, Zero)
           THEN Add(Mul(l.csig1, Sub(One, x.csig12)), Mul(x.ssig12, l.ssig1))
           ELSE Mul(x.ssig12,
                    Add(Div(Mul(l.csig1, x.ssig12), Add(One, x.csig12)),
                        l.ssig1)))

PosCalp12(l, x) ==
  IF Eq(l.calp0, Zero) \/ Eq(l.salp0, Zero)
  THEN Add(Mul(x.calp2, l.calp1), Mul(x.salp2, l.salp1))
  ELSE Add(sq(l.salp0), Mul(Mul(sq(l.calp0), l.csig1), x.csig2))

PosS12(l, x) ==
  Add(Mul(l.c2, atan2(PosSalp12(l, x), PosCalp12(l, x))),
      Mul(l.A4, Sub(SinCosSeries(FALSE, x.ssig2, x.csig2, l.C4a, nC4), l.B41)))

\* 536-539 and 560-634: the outputs, stored where the pointer is not null
\* and outmask has the bit, and the value returned.
PosStore(l, flags, s12_a12, ptrs, o, outmask, x) ==
  LET arcmode == Has(flags, GEOD_ARCMODE)
      St(n, m) == Has(outmask, m) /\ n \in ptrs
  IN [ret |-> IF arcmode THEN s12_a12 ELSE Div(x.sig12, degree),
      out |->
        [lat2 |-> IF St("lat2", GEOD_LATITUDE)
                  THEN atan2dx(x.sbet2, Mul(l.f1, x.cbet2)) ELSE o.lat2,
         lon2 |-> IF St("lon2", GEOD_LONGITUDE)
                  THEN PosLongitude(l, Has(flags, GEOD_LONG_UNROLL), x)
                  ELSE o.lon2,
         azi2 |-> IF St("azi2", GEOD_AZIMUTH)
                  THEN atan2dx(x.salp2, x.calp2) ELSE o.azi2,
         s12 |-> IF St("s12", GEOD_DISTANCE)
                 THEN IF arcmode
                      THEN Mul(l.b, Add(Mul(Add(One, l.A1m1), x.sig12), x.AB1))
                      ELSE s12_a12
                 ELSE o.s12,
         m12 |-> IF St("m12", GEOD_REDUCEDLENGTH)
                 THEN Posm12(l, x, PosJ12Of(l, x)) ELSE o.m12,
         M12 |-> IF St("M12", GEOD_GEODESICSCALE)
                 THEN PosM12(l, x, PosJ12Of(l, x), PosT(l, x)) ELSE o.M12,
         M21 |-> IF St("M21", GEOD_GEODESICSCALE)
                 THEN PosM21(l, x, PosJ12Of(l, x), PosT(l, x)) ELSE o.M21,
         S12 |-> IF St("S12", GEOD_AREA) THEN PosS12(l, x) ELSE o.S12]]

\* The body of geod_genposition past its first test.  o holds the caller's
\* output locations; the result is the value returned and the locations
\* after the call.
PositionMasked(l, flags, s12_a12, ptrs, o, outmask) ==
  PosStore(l, flags, s12_a12, ptrs, o, outmask,
           PosSig2(l, Has(flags, GEOD_ARCMODE),
                   Has(outmask, GEOD_DISTANCE \cup GEOD_REDUCEDLENGTH
                                \cup GEOD_GEODESICSCALE),
                   PosSig12(l, Has(flags, GEOD_ARCMODE), s12_a12)))

\* The outputs stored whatever the caps of the line.
PositionCompute_AnyCaps(l, flags, s12_a12, ptrs, o) ==
  PositionMasked(l, flags, s12_a12, ptrs, o, PosMask(ptrs))

PositionCompute(l, flags, s12_a12, ptrs, o) ==
  PositionMasked(l, flags, s12_a12, ptrs, o, PosMask(ptrs) \cap (l.caps \cap OUT_ALL))

\* "Impossible distance calculation requested": return NaN, with every
\* output location written as NaN.
PositionRefused_NaNOut(ptrs, o) ==
  [ret |-> NaN, out |-> [n \in Ptrs |-> IF n \in ptrs THEN NaN ELSE o[n]]]

\* "Impossible distance calculation requested": return NaN.
PositionRefused(ptrs, o) == [ret |-> NaN, out |-> o]

geod_genposition(l, flags, s12_a12, ptrs, o) ==
  IF ~(Has(flags, GEOD_ARCMODE) \/ Has(l.caps, GEOD_DISTANCE_IN \cap OUT_ALL))
  THEN PositionRefused(ptrs, o)
  ELSE PositionCompute(l, flags, s12_a12, ptrs, o)

geod_position(l, s12, ptrs, o) == geod_genposition(l, GEOD_NOFLAGS, s12, ptrs, o)

geod_gendirect(g, lat1, lon1, azi1, flags, s12_a12, ptrs, o) ==
  geod_genposition(geod_lineinit(g, lat1, lon1, azi1,
                                 PosMask(ptrs) \cup
                                 (IF Has(flags, GEOD_ARCMODE) THEN GEOD_NONE
                                  ELSE GEOD_DISTANCE_IN)),
                   flags, s12_a12, ptrs, o)

---------------------------------------------------------------------------
(* The polygon accumulator, geodesic.c 1748-2026.  An accumulator is the   *)
(* pair <<s[0], s[1]>> of a sum and its rounding error.                    *)

\* 1 or -1 if the edge crosses the prime meridian going east or west.
\* A count of the eastward crossings alone.
TransitOf_East(lon12, lon1, lon2) ==
  IF /\ Gt(lon12, Zero)
     /\ \/ Lt(lon1, Zero) /\ Ge(lon2, Zero)
        \/ Gt(lon1, Zero) /\ Eq(lon2, Zero)
  THEN 1
  ELSE 0

TransitOf(lon12, lon1, lon2) ==
  IF /\ Gt(lon12, Zero)
     /\ \/ Lt(lon1, Zero) /\ Ge(lon2, Zero)
        \/ Gt(lon1, Zero) /\ Eq(lon2, Zero)
  THEN 1
  ELSE IF Lt(lon12, Zero) /\ Ge(lon1, Zero) /\ Lt(lon2, Zero) THEN -1 ELSE 0

\* The difference taken from lon2 back to lon1.
transit_Back(lon1, lon2) ==
  TransitOf(AngDiff(lon2, lon1).d, AngNormalize(lon1), AngNormalize(lon2))

transit(lon1, lon2) ==
  TransitOf(AngDiff(lon1, lon2).d, AngNormalize(lon1), AngNormalize(lon2))

\* 0 for a longitude in (-360, 360) modulo 720, else 1.
TransitHalf_Both(lon) == IF Lt(fabs(lon), Deg(td)) THEN 0 ELSE 1

\* 0 for a longitude in [0, 360) modulo 720, else 1.
TransitHalf(lon) == IF Ge(lon, Zero) /\ Lt(lon, Deg(td)) THEN 0 ELSE 1

transitdirect(lon1, lon2) ==
  TransitHalf(remainder(lon2, Mul(D(2), Deg(td))))
  - TransitHalf(remainder(lon1, Mul(D(2), Deg(td))))

accini == <<Zero, Zero>>

acccopy(s) == <<s[1], s[2]>>

AccStore(zu, st) ==
  IF Eq(st.s, Zero) THEN <<zu.t, st.t>> ELSE <<st.s, Add(st.t, zu.t)>>

AccSecond(s, zu) == AccStore(zu, sumx(zu.s, s[1]))

accadd(s, y) == AccSecond(s, sumx(y, s[2]))

accsum(s, y) == accadd(acccopy(s), y)[1]

accneg(s) == <<Neg(s[1]), Neg(s[2])>>

accrem(s, y) == accadd(<<remainder(s[1], y), s[2]>>, Zero)

\* area0 = 4 * pi * c2 at 1882, 1923 and 1965.
Area0(g) == Mul(Mul(D(4), pi), g.c2)

\* (area < 0 ? 1 : -1) * area0/2
HalfTurn(area, area0) ==
  Div(Mul(IF Lt(area, Zero) THEN One ELSE Neg(One), area0), D(2))

\* 1983-1984
ReduceACross(area, area0, crossings) ==
  IF crossings % 2 = 1 THEN accadd(area, HalfTurn(area[1], area0)) ELSE area

\* 1987-1988
ReduceASense(area, reverse) == IF ~reverse THEN accneg(area) ELSE area

\* 1990-2000
ReduceARange(area, area0, sign) ==
  IF sign
  THEN IF Gt(area[1], Div(area0, D(2))) THEN accadd(area, Neg(area0))
       ELSE IF Le(area[1], Div(Neg(area0), D(2))) THEN accadd(area, area0)
       ELSE area
  ELSE IF Ge(area[1], area0) THEN accadd(area, Neg(area0))
       ELSE IF Lt(area[1], Zero) THEN accadd(area, area0)
       ELSE area

areareduceA(area, area0, crossings, reverse, sign) ==
  Add(Zero,
      ReduceARange(ReduceASense(ReduceACross(accrem(area, area0), area0, crossings),
                                reverse),
                   area0, sign)[1])

\* 2007-2008
ReduceBCross(area, area0, crossings) ==
  IF crossings % 2 = 1 THEN Add(area, HalfTurn(area, area0)) ELSE area

\* 2011-2012
ReduceBSense(area, reverse) == IF ~reverse THEN Mul(area, Neg(One)) ELSE area

\* 2014-2024
ReduceBRange(area, area0, sign) ==
  IF sign
  THEN IF Gt(area, Div(area0, D(2))) THEN Sub(area, area0)
       ELSE IF Le(area, Div(Neg(area0), D(2))) THEN Add(area, area0)
       ELSE area
  ELSE IF Ge(area, area0) THEN Sub(area, area0)
       ELSE IF Lt(area, Zero) THEN Add(area, area0)
       ELSE area

areareduceB(area, area0, crossings, reverse, sign) ==
  Add(Zero,
      ReduceBRange(ReduceBSense(ReduceBCross(remainder(area, area0), area0, crossings),
                                reverse),
                   area0, sign))

\* The solvers on the points a polygon visits: g.inverse and g.direct hold
\* what geod_geninverse (s12 and S12 asked for) and geod_gendirect (with
\* GEOD_LONG_UNROLL; lat2, lon2 and S12 asked for) return there.  A polyline
\* asks for no S12 and reads none.
PolyInverse(g, lat1, lon1, lat2, lon2) == g.inverse[<<lat1, lon1, lat2, lon2>>]

PolyDirect(g, lat1, lon1, azi1, s12) == g.direct[<<lat1, lon1, azi1, s12>>]

\* 1814-1819, nan being what the static variable NaN holds at the call.
PolygonCleared(p, nan) ==
  [p EXCEPT !.lat0 = nan, !.lon0 = nan, !.lat = nan, !.lon = nan,
            !.P = accini, !.A = accini, !.num = 0, !.crossings = 0]

\* 1809-1812.
PolygonMade(polylinep, nan) ==
  PolygonCleared([polyline |-> polylinep, lat0 |-> Unset, lon0 |-> Unset,
                  lat |-> Unset, lon |-> Unset, P |-> UnsetArr(2),
                  A |-> UnsetArr(2), num |-> 0, crossings |-> 0], nan)

\* The two after geod_init, when the static variable holds nan("0").
geod_polygon_clear(p) == PolygonCleared(p, NaN)

geod_polygon_init(polylinep) == PolygonMade(polylinep, NaN)

\* The new vertex taken as the first one as well.
AddPointEdge_Restart(p, lat, lon, r) ==
  [p EXCEPT !.P = accadd(@, r.s12),
            !.A = IF p.polyline THEN @ ELSE accadd(@, r.S12),
            !.crossings = IF p.polyline THEN @ ELSE @ + transit(p.lon, lon),
            !.lat0 = lat, !.lon0 = lon,
            !.lat = lat, !.lon = lon, !.num = @ + 1]

\* 1832-1838
AddPointEdge(p, lat, lon, r) ==
  [p EXCEPT !.P = accadd(@, r.s12),
            !.A = IF p.polyline THEN @ ELSE accadd(@, r.S12),
            !.crossings = IF p.polyline THEN @ ELSE @ + transit(p.lon, lon),
            !.lat = lat, !.lon = lon, !.num = @ + 1]

geod_polygon_addpoint(g, p, lat, lon) ==
  IF p.num = 0
  THEN [p EXCEPT !.lat0 = lat, !.lat = lat, !.lon0 = lon, !.lon = lon, !.num = 1]
  ELSE AddPointEdge(p, lat, lon, PolyInverse(g, p.lat, p.lon, lat, lon))

\* The area and the crossings of a polyline accumulated as well.
AddEdgeEnd_Area(p, s, r) ==
  [p EXCEPT !.P = accadd(@, s),
            !.A = accadd(@, r.S12),
            !.crossings = @ + transitdirect(p.lon, r.lon2),
            !.lat = r.lat2, !.lon = r.lon2, !.num = @ + 1]

\* 1853-1859
AddEdgeEnd(p, s, r) ==
  [p EXCEPT !.P = accadd(@, s),
            !.A = IF p.polyline THEN @ ELSE accadd(@, r.S12),
            !.crossings = IF p.polyline THEN @ ELSE @ + transitdirect(p.lon, r.lon2),
            !.lat = r.lat2, !.lon = r.lon2, !.num = @ + 1]

\* An edge added to an accumulator that holds no vertex counted as one.
geod_polygon_addedge_Count(g, p, azi, s) ==
  IF p.num # 0 THEN AddEdgeEnd(p, s, PolyDirect(g, p.lat, p.lon, azi, s))
  ELSE [p EXCEPT !.num = @ + 1]

geod_polygon_addedge(g, p, azi, s) ==
  IF p.num # 0 THEN AddEdgeEnd(p, s, PolyDirect(g, p.lat, p.lon, azi, s)) ELSE p

\* 1877-1885: the polygon is closed with the edge r back to the first vertex.
ComputeClosed(g, p, reverse, sign, r) ==
  [p |-> p, ret |-> p.num,
   pP |-> accsum(p.P, r.s12),
   pA |-> areareduceA(accadd(acccopy(p.A), r.S12), Area0(g),
                      p.crossings + transit(p.lon, p.lon0), reverse, sign)]

\* The results are the struct, the value returned and what *pA and *pP hold
\* afterwards, o being what they held before.
geod_polygon_compute(g, p, reverse, sign, o) ==
  IF p.num < 2
  THEN [p |-> p, ret |-> p.num, pP |-> Zero,
        pA |-> IF ~p.polyline THEN Zero ELSE o.pA]
  ELSE IF p.polyline
  THEN [p |-> p, ret |-> p.num, pP |-> p.P[1], pA |-> o.pA]
  ELSE ComputeClosed(g, p, reverse, sign,
                     PolyInverse(g, p.lat, p.lon, p.lat0, p.lon0))

\* The sums without the edge that closes the polygon.
TestPointSums_Open(p, lon, r0, r1) ==
  [perimeter |-> Add(p.P[1], r0.s12), tempsum |-> Add(p.A[1], r0.S12),
   crossings |-> p.crossings + transit(p.lon, lon)]

\* 1904-1917 for i = 0, and for i = 1 in a polygon.
TestPointSums(p, lon, r0, r1) ==
  IF p.polyline
  THEN [perimeter |-> Add(p.P[1], r0.s12), tempsum |-> Zero,
        crossings |-> p.crossings]
  ELSE [perimeter |-> Add(Add(p.P[1], r0.s12), r1.s12),
        tempsum |-> Add(Add(p.A[1], r0.S12), r1.S12),
        crossings |-> p.crossings + transit(p.lon, lon) + transit(lon, p.lon0)]

\* 1919-1924
TestResult(g, p, reverse, sign, o, t) ==
  [p |-> p, ret |-> p.num + 1, pP |-> t.perimeter,
   pA |-> IF p.polyline THEN o.pA
          ELSE areareduceB(t.tempsum, Area0(g), t.crossings, reverse, sign)]

\* The point is added to the accumulator before the result is computed.
geod_polygon_testpoint_Add(g, p, lat, lon, reverse, sign, o) ==
  geod_polygon_compute(g, geod_polygon_addpoint(g, p, lat, lon), reverse, sign, o)

geod_polygon_testpoint(g, p, lat, lon, reverse, sign, o) ==
  IF p.num + 1 = 1
  THEN [p |-> p, ret |-> 1, pP |-> Zero, pA |-> IF ~p.polyline THEN Zero ELSE o.pA]
  ELSE TestResult(g, p, reverse, sign, o,
                  TestPointSums(p, lon, PolyInverse(g, p.lat, p.lon, lat, lon),
                                PolyInverse(g, lat, lon, p.lat0, p.lon0)))

\* The sums without the area under the edge.
TestEdgeClose_NoArea(p, s, d, r) ==
  [perimeter |-> Add(Add(p.P[1], s), r.s12),
   tempsum |-> Add(p.A[1], r.S12),
   crossings |-> p.crossings + transitdirect(p.lon, d.lon2) + transit(d.lon2, p.lon0)]

\* 1951-1961: d is the end of the edge, r the edge closing the polygon.
TestEdgeClose(p, s, d, r) ==
  [perimeter |-> Add(Add(p.P[1], s), r.s12),
   tempsum |-> Add(Add(p.A[1], d.S12), r.S12),
   crossings |-> p.crossings + transitdirect(p.lon, d.lon2) + transit(d.lon2, p.lon0)]

TestEdgeEnd(g, p, s, d) ==
  TestEdgeClose(p, s, d, PolyInverse(g, d.lat2, d.lon2, p.lat0, p.lon0))

geod_polygon_testedge(g, p, azi, s, reverse, sign, o) ==
  IF p.num + 1 = 1
  THEN [p |-> p, ret |-> 0, pP |-> NaN, pA |-> IF ~p.polyline THEN NaN ELSE o.pA]
  ELSE IF p.polyline
  THEN [p |-> p, ret |-> p.num + 1, pP |-> Add(p.P[1], s), pA |-> o.pA]
  ELSE TestResult(g, p, reverse, sign, o,
                  TestEdgeEnd(g, p, s, PolyDirect(g, p.lat, p.lon, azi, s)))

--------------------------------------------------------------------------
(* State.                                                                  *)
(*   nw    the locals of the Newton loop of geod_geninverse_int            *)
(*   poly  a struct geod_polygon                                           *)
(*   line  a struct geod_geodesicline                                      *)
(*   out   the caller's side of the last call: the output locations (loc), *)
(*         the value returned (ret) and what was called (call)             *)
VARIABLES nw, poly, line, out

vars == <<nw, poly, line, out>>

\* The value of a variable a specification does not use.
Idle == [pc |-> "idle"]

--------------------------------------------------------------------------
(* The Newton loop of geod_geninverse_int (geodesic.c, 850-934).           *)
(*                                                                         *)
(* The estimate (salp1, calp1) and the bracket ends are directions         *)
(* (sin alp, cos alp) with alp in [0, pi]; the model keeps alp as a cell   *)
(* 0..AlpN of a grid over [0, pi], and AlpNaN for a NaN direction.  The    *)
(* bracket opens at (tiny, 1) and (tiny, -1): cells 0 and AlpN.            *)
(* calp/salp is the cotangent, which falls as alp grows, so                *)
(* calp1/salp1 > calp1b/salp1b reads alp1 < alp1b.  Lambda12 is not        *)
(* evaluated: the loop is run for every v and dv it can hand back, v in    *)
(* units of tol0.  A cell is wider than tolb, so the test that sets tripb  *)
(* is false for a midpoint in another cell than both ends and open         *)
(* otherwise.                                                              *)

\* Cells of the grid over [0, pi].
AlpN == 4

AlpNaN == -1

\* The residuals Lambda12 may return: NaN, 0, and values at and about the
\* thresholds tol0, 8 tol0 and 16 tol0, of both signs.
VSet == {NaN} \cup {Mul(D(i), tol0) : i \in {0, 1, -8, 16, 96, -96}}

DvSet == {NaN, Zero, One}

\* The exit test without its cap on numit.
NewtonExit_NoCap(s, v) ==
  \/ s.tripb
  \/ ~Ge(fabs(v), Mul(D(IF s.tripn THEN 8 ELSE 1), tol0))

\* The exit test written forwards, which a NaN does not pass.
NewtonExit_Forward(s, v) ==
  \/ s.tripb
  \/ Lt(fabs(v), Mul(D(IF s.tripn THEN 8 ELSE 1), tol0))
  \/ s.numit = maxit2

\* The exit test with the one threshold tol0 on every pass.
NewtonExit_OneThreshold(s, v) ==
  \/ s.tripb
  \/ ~Ge(fabs(v), tol0)
  \/ s.numit = maxit2

\* The first test of the loop body: leave with the current estimate.
NewtonExit(s, v) ==
  \/ s.tripb
  \/ ~Ge(fabs(v), Mul(D(IF s.tripn THEN 8 ELSE 1), tol0))
  \/ s.numit = maxit2

CotGt(x, y) == x # AlpNaN /\ y # AlpNaN /\ x < y

CotLt(x, y) == x # AlpNaN /\ y # AlpNaN /\ x > y

\* The bracket after "Update bracketing values".
Bracket(s, v) ==
  LET upb == Gt(v, Zero) /\ (s.numit > maxit1 \/ CotGt(s.alp1, s.alp1b))
      upa == ~upb /\ Lt(v, Zero) /\ (s.numit > maxit1 \/ CotLt(s.alp1, s.alp1a))
  IN [a |-> IF upa THEN s.alp1 ELSE s.alp1a,
      b |-> IF upb THEN s.alp1 ELSE s.alp1b]

\* The Newton step taken whatever the sign of nsalp1.
NewtonTaken_NoSign(s, dv, d) ==
  /\ s.numit < maxit1
  /\ Gt(dv, Zero)
  /\ Abs(d) < AlpN

\* The Newton step taken when alp1 + dalp1 is above 0, pi and beyond
\* included.
NewtonTaken_AboveZero(s, dv, d) ==
  /\ s.numit < maxit1
  /\ Gt(dv, Zero)
  /\ Abs(d) < AlpN
  /\ s.alp1 + d > 0

\* The Newton step is taken: dv > 0, |dalp1| < pi and nsalp1 > 0, where
\* dalp1 = -v/dv is d cells.
NewtonTaken(s, dv, d) ==
  /\ s.numit < maxit1
  /\ Gt(dv, Zero)
  /\ Abs(d) < AlpN
  /\ s.alp1 + d > 0 /\ s.alp1 + d < AlpN

\* One pass of the body of for (;; ++numit), Lambda12 having returned v and
\* stored dv; d is the Newton step in cells and tb the outcome of the tolb
\* test where the grid leaves it open.
\* diffp, dv and dalp1 are what the pass asked of Lambda12, the derivative
\* it got and the step -v/dv in cells (0 once the loop is left).
NewtonBody(s, v, dv, d, tb) ==
  LET br  == Bracket(s, v)
      mid == (br.a + br.b) \div 2
  IN IF NewtonExit(s, v)
     THEN [s EXCEPT !.pc = "done", !.evals = @ + 1, !.v = v,
                    !.diffp = s.numit < maxit1, !.dv = Zero, !.dalp1 = 0]
     ELSE IF NewtonTaken(s, dv, d)
     THEN [s EXCEPT !.evals = @ + 1, !.v = v, !.numit = @ + 1,
                    !.alp1a = br.a, !.alp1b = br.b,
                    !.alp1 = s.alp1 + d,
                    !.tripn = Le(fabs(v), Mul(D(16), tol0)),
                    !.diffp = s.numit < maxit1, !.dv = dv, !.dalp1 = d,
                    !.step = "newton"]
     ELSE [s EXCEPT !.evals = @ + 1, !.v = v, !.numit = @ + 1,
                    !.alp1a = br.a, !.alp1b = br.b,
                    !.alp1 = mid,
                    !.tripn = FALSE,
                    !.tripb = IF mid # br.a /\ mid # br.b THEN FALSE ELSE tb,
                    !.diffp = s.numit < maxit1, !.dv = dv, !.dalp1 = d,
                    !.step = "bisect"]

\* What Lambda12 can return for the estimate: NaN for a NaN estimate; dv is
\* computed only while numit < maxit1 (diffp) and is the initial 0 after.
LambdaV(s) == IF s.alp1 = AlpNaN THEN {NaN} ELSE VSet

LambdaDv(s) == IF s.numit < maxit1 THEN DvSet ELSE {Zero}

\* The steps -v/dv can be for dv > 0: against the sign of v.
Steps(v) ==
  IF v.nan THEN {0}
  ELSE {d \in (0 - AlpN) .. AlpN : (Gt(v, Zero) => d <= 0) /\ (Lt(v, Zero) => d >= 0)}

\* InverseStart returned sig12 < 0 with the starting estimate alp1.
NewtonInit ==
  /\ nw \in {[pc |-> "loop", numit |-> 0, evals |-> 0, alp1 |-> a,
              alp1a |-> 0, alp1b |-> AlpN, tripn |-> FALSE, tripb |-> FALSE,
              v |-> Zero, diffp |-> TRUE, dv |-> Zero, dalp1 |-> 0,
              step |-> "start"] : a \in (1 .. AlpN - 1) \cup {AlpNaN}}
  /\ poly = Idle /\ line = Idle /\ out = Idle

\* A pass that leaves the loop.
NewtonLeave ==
  /\ nw.pc = "loop"
  /\ \E v \in LambdaV(nw) :
       /\ NewtonExit(nw, v)
       /\ nw' = NewtonBody(nw, v, Zero, 0, FALSE)
  /\ UNCHANGED <<poly, line, out>>

\* A pass that takes the Newton step and goes round again.
NewtonStep ==
  /\ nw.pc = "loop"
  /\ \E v \in LambdaV(nw), dv \in LambdaDv(nw) :
       \E d \in Steps(v) :
         /\ ~NewtonExit(nw, v)
         /\ NewtonTaken(nw, dv, d)
         /\ nw' = NewtonBody(nw, v, dv, d, FALSE)
  /\ UNCHANGED <<poly, line, out>>

\* The tolb test is open when the midpoint falls in the cell of an end.
TolbOpen(s, v) ==
  LET br == Bracket(s, v)
  IN IF (br.a + br.b) \div 2 \in {br.a, br.b} THEN BOOLEAN ELSE {FALSE}

\* A pass that falls through to the midpoint of the bracket and goes round
\* again: dv is not positive, or the step leaves (0, pi).
NewtonBisect ==
  /\ nw.pc = "loop"
  /\ \E v \in LambdaV(nw), dv \in LambdaDv(nw) :
       \E d \in (IF Gt(dv, Zero) THEN Steps(v) ELSE {0}), tb \in TolbOpen(nw, v) :
         /\ ~NewtonExit(nw, v)
         /\ ~NewtonTaken(nw, dv, d)
         /\ nw' = NewtonBody(nw, v, dv, d, tb)
  /\ UNCHANGED <<poly, line, out>>

NextNewton == NewtonLeave \/ NewtonStep \/ NewtonBisect

SpecNewton == NewtonInit /\ [][NextNewton]_vars

\* C1: the loop evaluates Lambda12 at most maxit2 + 1 times: the count of
\* evaluations is numit while the loop runs and numit + 1 once it is left,
\* numit never passes maxit2, and a pass entered with numit = maxit2 leaves
\* the loop with the estimate it was entered with, whatever v is.
C1_Termination ==
  /\ [](/\ nw.numit <= maxit2
        /\ nw.evals <= maxit2 + 1
        /\ nw.evals = IF nw.pc = "done" THEN nw.numit + 1 ELSE nw.numit)
  /\ [][nw.pc = "loop" /\ nw.numit = maxit2
          => nw'.pc = "done" /\ nw'.alp1 = nw.alp1 /\ nw'.numit = maxit2]_vars

\* The loop was left at the cap, after maxit2 + 1 evaluations, with a
\* residual still above the tolerance.
C1_Witness ==
  /\ nw.pc = "done" /\ nw.evals = maxit2 + 1
  /\ ~nw.tripb /\ Ge(fabs(nw.v), tol0)

--------------------------------------------------------------------------
(* The inverse solver (geodesic.c, 694-1485). *)

\* The thresholds the inverse solver compares with, on the model's values:
\* x < 0.5 is 2 x < 1; x < 1.75 is 4 x < 7; x > -0.7071 is 10000 x > -7071;
\* and an angle is below 1 radian when 3 times it is below pi.
\* sig12 = sig2 - sig1 with no limit on it.
Sig12Of_Unclamped(y, x) == atan2(y, x)

\* 798-799 and 1445-1446: sig12 = sig2 - sig1, limited to [0, pi] by
\* atan2(fmax(0.0, y) + 0, x).
Sig12Of(y, x) == atan2(Add(fmax(Zero, y), Zero), x)

LtHalf(x) == Lt(Mul(D(2), x), One)

LtOneRadian(x) == Lt(Mul(D(3), x), pi)

\* Lengths, 1124-1135: A1, A2, m0 and the coefficients Ca, Cb.  want is the
\* set of the results whose pointer is not null.
LengthsRedlp(want) == want \cap {"m12b", "m0", "M12", "M21"} # {}

LengthsCoef(want, A1m1, A2m1, Ca, Cb) ==
  [A1 |-> IF "s12b" \in want \/ LengthsRedlp(want) THEN Add(One, A1m1) ELSE Zero,
   A2 |-> IF LengthsRedlp(want) THEN Add(One, A2m1) ELSE Zero,
   m0 |-> IF LengthsRedlp(want) THEN Sub(A1m1, A2m1) ELSE Zero,
   Ca |-> Ca, Cb |-> Cb]

\* 1136-1153: s12b and J12.
LengthsBoth(want, k, sig12, B1, B2) ==
  [s12b |-> Mul(k.A1, Add(sig12, B1)),
   J12 |-> IF LengthsRedlp(want)
           THEN Add(Mul(k.m0, sig12), Sub(Mul(k.A1, B1), Mul(k.A2, B2)))
           ELSE Zero]

LengthsMerged(k, sig12, ssig1, csig1, ssig2, csig2, Cb) ==
  [s12b |-> Zero,
   J12 |-> Add(Mul(k.m0, sig12),
               Sub(SinCosSeries(TRUE, ssig2, csig2, Cb, nC2),
                   SinCosSeries(TRUE, ssig1, csig1, Cb, nC2)))]

LengthsJ(want, k, sig12, ssig1, csig1, ssig2, csig2) ==
  IF "s12b" \in want
  THEN LengthsBoth(want, k, sig12,
                   Sub(SinCosSeries(TRUE, ssig2, csig2, k.Ca, nC1),
                       SinCosSeries(TRUE, ssig1, csig1, k.Ca, nC1)),
                   IF LengthsRedlp(want)
                   THEN Sub(SinCosSeries(TRUE, ssig2, csig2, k.Cb, nC2),
                            SinCosSeries(TRUE, ssig1, csig1, k.Cb, nC2))
                   ELSE Zero)
  ELSE IF LengthsRedlp(want)
  THEN LengthsMerged(k, sig12, ssig1, csig1, ssig2, csig2,
                     [l \in 1 .. nC2 |-> Sub(Mul(k.A1, k.Ca[l]), Mul(k.A2, k.Cb[l]))])
  ELSE [s12b |-> Zero, J12 |-> Zero]

\* 1154-1168: the results.  A result that was not asked for is 0, the value
\* the caller's variable has when its address is not passed.
LengthsOut(want, m0, j, ssig1, csig1, dn1, ssig2, csig2, dn2, csig12, t) ==
  [s12b |-> j.s12b,
   m0 |-> IF "m0" \in want THEN m0 ELSE Zero,
   m12b |-> IF "m12b" \in want
            THEN Sub(Sub(Mul(dn2, Mul(csig1, ssig2)), Mul(dn1, Mul(ssig1, csig2))),
                     Mul(Mul(csig1, csig2), j.J12))
            ELSE Zero,
   M12 |-> IF "M12" \in want
           THEN Add(csig12,
                    Div(Mul(Sub(Mul(t, ssig2), Mul(csig2, j.J12)), ssig1), dn1))
           ELSE Zero,
   M21 |-> IF "M21" \in want
           THEN Sub(csig12,
                    Div(Mul(Sub(Mul(t, ssig1), Mul(csig1, j.J12)), ssig2), dn2))
           ELSE Zero]

LengthsOf(g, want, k, sig12, ssig1, csig1, dn1, ssig2, csig2, dn2, cbet1, cbet2) ==
  LengthsOut(want, k.m0, LengthsJ(want, k, sig12, ssig1, csig1, ssig2, csig2),
             ssig1, csig1, dn1, ssig2, csig2, dn2,
             Add(Mul(csig1, csig2), Mul(ssig1, ssig2)),
             IF Has(want, {"M12", "M21"})
             THEN Div(Mul(Mul(g.ep2, Sub(cbet1, cbet2)), Add(cbet1, cbet2)),
                      Add(dn1, dn2))
             ELSE Zero)

Lengths(g, eps, sig12, ssig1, csig1, dn1, ssig2, csig2, dn2, cbet1, cbet2, want) ==
  LengthsOf(g, want,
            LengthsCoef(want, A1m1f(eps), A2m1f(eps), C1f(eps), C2f(eps)),
            sig12, ssig1, csig1, dn1, ssig2, csig2, dn2, cbet1, cbet2)

\* cbrt on NaN, 0 and 1.
cbrt(x) ==
  CASE x.nan -> x
    [] ~x.nan /\ x.m = 0 -> x
    [] ~x.nan /\ x.m = 1 /\ x.k = 0 -> x

\* Astroid, 1208-1214: v, uv, w and k from u.
AstroidK(uv, w) == Div(uv, Add(sqrt(Add(uv, sq(w))), w))

AstroidW(q, uv, v) == AstroidK(uv, Div(Sub(uv, q), Mul(D(2), v)))

AstroidV(q, u, v) ==
  AstroidW(q, IF Lt(u, Zero) THEN Div(q, Sub(v, u)) ELSE Add(u, v), v)

AstroidU(q, u) == AstroidV(q, u, sqrt(Add(sq(u), q)))

\* 1191-1207: u by the sign of the discriminant.
AstroidT(q, r, r2, T) ==
  AstroidU(q, Add(r, Add(T, IF Ne(T, Zero) THEN Div(r2, T) ELSE Zero)))

AstroidDisc(q, r, r2, T3, disc) ==
  IF Ge(disc, Zero)
  THEN AstroidT(q, r, r2,
                cbrt(Add(T3, IF Lt(T3, Zero) THEN Neg(sqrt(disc)) ELSE sqrt(disc))))
  ELSE AstroidU(q, Add(r, Mul(Mul(D(2), r),
                              cos(Div(atan2(sqrt(Neg(disc)), Neg(T3)), D(3))))))

AstroidS(q, r, S, r3) ==
  AstroidDisc(q, r, sq(r), Add(S, r3), Mul(S, Add(S, Mul(D(2), r3))))

AstroidR(p, q, r) ==
  IF ~(Eq(q, Zero) /\ Le(r, Zero))
  THEN AstroidS(q, r, Div(Mul(p, q), D(4)), Mul(r, sq(r)))
  ELSE Zero

Astroid(x, y) == AstroidR(sq(x), sq(y), Div(Sub(Add(sq(x), sq(y)), One), D(6)))

\* InverseStart, 1366-1382: the sanity check on the starting guess and the
\* values handed back.  salp2, calp2 and dnm are 0 where InverseStart does
\* not store them: the caller's variables still hold their initial 0.
StartFinish(x, sig12, salp1, calp1, salp2, calp2) ==
  [sig12 |-> sig12,
   salp1 |-> IF ~Le(salp1, Zero) THEN norm2(salp1, calp1).s ELSE One,
   calp1 |-> IF ~Le(salp1, Zero) THEN norm2(salp1, calp1).c ELSE Zero,
   salp2 |-> IF Ge(sig12, Zero) THEN salp2 ELSE Zero,
   calp2 |-> IF Ge(sig12, Zero) THEN calp2 ELSE Zero,
   dnm |-> IF x.shortline THEN x.dnm ELSE Zero]

\* 1315-1365 for f >= 0: the guess from the scaled coordinates x, y of the
\* antipodal region, by Astroid where the point is off the axis.
StartAstroid(c, x, somg12, comg12) ==
  StartFinish(x, Neg(One), Mul(c.cbet2, somg12),
              Sub(x.sbet12a,
                  Div(Mul(Mul(c.cbet2, c.sbet1), sq(somg12)), Sub(One, comg12))),
              Zero, Zero)

StartOmg12a(c, x, omg12a) == StartAstroid(c, x, sin(omg12a), Neg(cos(omg12a)))

StartK(c, x, lamscale, xx, k) ==
  StartOmg12a(c, x, Mul(lamscale, Div(Mul(Neg(xx), k), Add(One, k))))

StartAxis(x, salp1) ==
  StartFinish(x, Neg(One), salp1, Neg(sqrt(Sub(One, sq(salp1)))), Zero, Zero)

StartXY(c, x, lamscale, xx, yy) ==
  IF Gt(yy, Neg(tol1)) /\ Gt(xx, Sub(Neg(One), xthresh))
  THEN StartAxis(x, fmin(One, Neg(xx)))
  ELSE StartK(c, x, lamscale, xx, Astroid(xx, yy))

\* 1283-1296: lamscale, betscale, x and y.  The branch of f < 0 is outside
\* the ellipsoids of the model.
StartScale(c, x, lam12x, lamscale) ==
  StartXY(c, x, lamscale, Div(lam12x, lamscale),
          Div(x.sbet12a, Mul(lamscale, c.cbet1)))

StartEps(g, c, x, lam12x, eps) ==
  StartScale(c, x, lam12x, Mul(Mul(Mul(g.f, c.cbet1), A3f(g, eps)), pi))

StartAntipodal(g, c, x) ==
  CASE Ge(g.f, Zero) ->
    StartEps(g, c, x, atan2(Neg(c.slam12), Neg(c.clam12)),
             LineEps(Mul(sq(c.sbet1), g.ep2)))

\* 1268-1280: the three cases by ssig12 and csig12.
StartShort(c, x, ssig12, csig12, salp2, calp2) ==
  StartFinish(x, atan2(ssig12, csig12), x.salp1, x.calp1,
              norm2(salp2, calp2).s, norm2(salp2, calp2).c)

StartCases(g, c, x, ssig12, csig12) ==
  IF x.shortline /\ Lt(ssig12, g.etol2)
  THEN StartShort(c, x, ssig12, csig12, Mul(c.cbet1, x.somg12),
                  Sub(x.sbet12,
                      Mul(Mul(c.cbet1, c.sbet2),
                          IF Ge(x.comg12, Zero)
                          THEN Div(sq(x.somg12), Add(One, x.comg12))
                          ELSE Sub(One, x.comg12))))
  ELSE IF \/ Gt(fabs(g.n), Fraction)
          \/ Ge(csig12, Zero)
          \/ Ge(ssig12, Mul(Mul(Mul(D(6), fabs(g.n)), pi), sq(c.cbet1)))
  THEN StartFinish(x, Neg(One), x.salp1, x.calp1, Zero, Zero)
  ELSE StartAntipodal(g, c, x)

\* 1260-1266: salp1, calp1, ssig12 and csig12.
StartSig12(g, c, x) ==
  StartCases(g, c, x, hypot(x.salp1, x.calp1),
             Add(Mul(c.sbet1, c.sbet2), Mul(Mul(c.cbet1, c.cbet2), x.comg12)))

StartAlp1(g, c, x, somg12, comg12) ==
  StartSig12(g, c,
    x @@ [somg12 |-> somg12, comg12 |-> comg12,
          salp1 |-> Mul(c.cbet2, somg12),
          calp1 |-> IF Ge(comg12, Zero)
                    THEN Add(x.sbet12,
                             Div(Mul(Mul(c.cbet2, c.sbet1), sq(somg12)),
                                 Add(One, comg12)))
                    ELSE Sub(x.sbet12a,
                             Div(Mul(Mul(c.cbet2, c.sbet1), sq(somg12)),
                                 Sub(One, comg12)))])

\* 1248-1258: omg12, on a short line from lam12 and the mean latitude.
StartOmg12(g, c, x, omg12) == StartAlp1(g, c, x, sin(omg12), cos(omg12))

StartDnm(g, c, x, dnm) ==
  StartOmg12(g, c, x @@ [dnm |-> dnm], Div(c.lam12, Mul(g.f1, dnm)))

StartSbetm2(g, c, x, sbetm2) ==
  StartDnm(g, c, x,
           sqrt(Add(One, Mul(g.ep2,
                             Div(sbetm2, Add(sbetm2, sq(Add(c.cbet1, c.cbet2))))))))

StartOmg(g, c, x) ==
  IF x.shortline THEN StartSbetm2(g, c, x, sq(Add(c.sbet1, c.sbet2)))
  ELSE StartAlp1(g, c, x @@ [dnm |-> Zero], c.slam12, c.clam12)

\* 1239-1247: sbet12, cbet12, sbet12a and shortline.
StartBet12(g, c, sbet12, cbet12) ==
  StartOmg(g, c,
    [sbet12 |-> sbet12,
     sbet12a |-> Add(Mul(c.sbet2, c.cbet1), Mul(c.cbet2, c.sbet1)),
     shortline |-> Ge(cbet12, Zero) /\ LtHalf(sbet12)
                   /\ LtHalf(Mul(c.cbet2, c.lam12))])

InverseStart(g, c) ==
  StartBet12(g, c, Sub(Mul(c.sbet2, c.cbet1), Mul(c.cbet2, c.sbet1)),
             Add(Mul(c.cbet2, c.cbet1), Mul(c.sbet2, c.sbet1)))

\* Lambda12, 1462-1484: dlam12 where diffp, and the values handed back.
LamDiff(g, c, diffp, x) ==
  [lam12 |-> x.lam12, salp2 |-> x.salp2, calp2 |-> x.calp2, sig12 |-> x.sig12,
   ssig1 |-> x.ssig1, csig1 |-> x.csig1, ssig2 |-> x.ssig2, csig2 |-> x.csig2,
   eps |-> x.eps, domg12 |-> x.domg12,
   dlam12 |->
     IF ~diffp THEN Zero
     ELSE IF Eq(x.calp2, Zero)
     THEN Div(Mul(Mul(D(-2), g.f1), c.dn1), c.sbet1)
     ELSE Mul(Lengths(g, x.eps, x.sig12, x.ssig1, x.csig1, c.dn1,
                      x.ssig2, x.csig2, c.dn2, c.cbet1, c.cbet2, {"m12b"}).m12b,
              Div(g.f1, Mul(x.calp2, c.cbet2)))]

\* 1456-1460: B312, domg12 and lam12.
LamDomg12(g, c, diffp, x, eta, domg12) ==
  LamDiff(g, c, diffp, x @@ [domg12 |-> domg12, lam12 |-> Add(eta, domg12)])

LamB312(g, c, diffp, x, eta, Ca) ==
  LamDomg12(g, c, diffp, x, eta,
            Mul(Mul(Mul(Neg(g.f), A3f(g, x.eps)), x.salp0),
                Add(x.sig12,
                    Sub(SinCosSeries(TRUE, x.ssig2, x.csig2, Ca, nC3 - 1),
                        SinCosSeries(TRUE, x.ssig1, x.csig1, Ca, nC3 - 1)))))

LamEps(g, c, diffp, x, eta, eps) ==
  LamB312(g, c, diffp, x @@ [eps |-> eps], eta, C3f(g, eps))

\* 1445-1455: sig12, omg12, eta and eps.
LamEta(g, c, diffp, x, somg12, comg12) ==
  LamEps(g, c, diffp, x,
         atan2(Sub(Mul(somg12, c.clam12), Mul(comg12, c.slam12)),
               Add(Mul(comg12, c.clam12), Mul(somg12, c.slam12))),
         LineEps(Mul(sq(x.calp0), g.ep2)))

LamSig12(g, c, diffp, x) ==
  LamEta(g, c, diffp,
         x @@ [sig12 |->
                 Sig12Of(Sub(Mul(x.csig1, x.ssig2), Mul(x.ssig1, x.csig2)),
                         Add(Mul(x.csig1, x.csig2), Mul(x.ssig1, x.ssig2)))],
         Add(fmax(Zero, Sub(Mul(x.comg1, x.somg2), Mul(x.somg1, x.comg2))), Zero),
         Add(Mul(x.comg1, x.comg2), Mul(x.somg1, x.somg2)))

\* 1426-1441: alp2 and sig2.
LamSig2(g, c, diffp, x, calp2) ==
  LamSig12(g, c, diffp,
           x @@ [calp2 |-> calp2,
                 ssig2 |-> norm2(c.sbet2, Mul(calp2, c.cbet2)).s,
                 csig2 |-> norm2(c.sbet2, Mul(calp2, c.cbet2)).c,
                 somg2 |-> Mul(x.salp0, c.sbet2),
                 comg2 |-> Mul(calp2, c.cbet2)])

LamAlp2(g, c, diffp, x) ==
  LamSig2(g, c, diffp,
          x @@ [salp2 |-> IF Ne(c.cbet2, c.cbet1) THEN Div(x.salp0, c.cbet2)
                          ELSE x.salp1],
          IF Ne(c.cbet2, c.cbet1) \/ Ne(fabs(c.sbet2), Neg(c.sbet1))
          THEN Div(sqrt(Add(sq(Mul(x.calp1, c.cbet1)),
                            IF Lt(c.cbet1, Neg(c.sbet1))
                            THEN Mul(Sub(c.cbet2, c.cbet1), Add(c.cbet1, c.cbet2))
                            ELSE Mul(Sub(c.sbet1, c.sbet2), Add(c.sbet1, c.sbet2)))),
                   c.cbet2)
          ELSE fabs(x.calp1))

\* 1412-1419: alp0, sig1 and omg1.
LamSig1(g, c, diffp, salp1, calp1, salp0) ==
  LamAlp2(g, c, diffp,
          [salp1 |-> salp1, calp1 |-> calp1, salp0 |-> salp0,
           calp0 |-> hypot(calp1, Mul(salp1, c.sbet1)),
           ssig1 |-> norm2(c.sbet1, Mul(calp1, c.cbet1)).s,
           csig1 |-> norm2(c.sbet1, Mul(calp1, c.cbet1)).c,
           somg1 |-> Mul(salp0, c.sbet1),
           comg1 |-> Mul(calp1, c.cbet1)])

LamAlp0(g, c, diffp, salp1, calp1) ==
  LamSig1(g, c, diffp, salp1, calp1, Mul(salp1, c.cbet1))

\* 1406-1409: the degeneracy of the equatorial line is broken first.
Lambda12(g, c, salp1, calp1, diffp) ==
  LamAlp0(g, c, diffp, salp1,
          IF Eq(c.sbet1, Zero) /\ Eq(calp1, Zero) THEN Neg(tiny) ELSE calp1)

\* The loop of Newton's method on doubles, 876-934.  n holds numit, tripn,
\* tripb, the estimate (salp1, calp1) and the bracket; the result is n at
\* the break with what the last Lambda12 handed back.
IterTripb(n, m) ==
  [n EXCEPT !.salp1 = m.s, !.calp1 = m.c, !.tripn = FALSE,
            !.tripb = \/ Lt(Add(fabs(Sub(n.salp1a, m.s)), Sub(n.calp1a, m.c)), tolb)
                      \/ Lt(Add(fabs(Sub(m.s, n.salp1b)), Sub(m.c, n.calp1b)), tolb),
            !.numit = @ + 1]

IterMid(n) ==
  IterTripb(n, norm2(Div(Add(n.salp1a, n.salp1b), D(2)),
                     Div(Add(n.calp1a, n.calp1b), D(2))))

IterNsalp1(n, v, sdalp1, cdalp1, nsalp1) ==
  IF Gt(nsalp1, Zero)
  THEN [n EXCEPT
          !.salp1 = norm2(nsalp1, Sub(Mul(n.calp1, cdalp1), Mul(n.salp1, sdalp1))).s,
          !.calp1 = norm2(nsalp1, Sub(Mul(n.calp1, cdalp1), Mul(n.salp1, sdalp1))).c,
          !.tripn = Le(fabs(v), Mul(D(16), tol0)),
          !.numit = @ + 1]
  ELSE IterMid(n)

IterDalp1(n, v, dalp1) ==
  IF Lt(fabs(dalp1), pi)
  THEN IterNsalp1(n, v, sin(dalp1), cos(dalp1),
                  Add(Mul(n.salp1, cos(dalp1)), Mul(n.calp1, sin(dalp1))))
  ELSE IterMid(n)

IterStep(n, v, dv) ==
  IF n.numit < maxit1 /\ Gt(dv, Zero) THEN IterDalp1(n, v, Div(Neg(v), dv))
  ELSE IterMid(n)

IterBracket(n, v) ==
  IF /\ Gt(v, Zero)
     /\ \/ n.numit > maxit1
        \/ Gt(Div(n.calp1, n.salp1), Div(n.calp1b, n.salp1b))
  THEN [n EXCEPT !.salp1b = n.salp1, !.calp1b = n.calp1]
  ELSE IF /\ Lt(v, Zero)
          /\ \/ n.numit > maxit1
             \/ Lt(Div(n.calp1, n.salp1), Div(n.calp1a, n.salp1a))
  THEN [n EXCEPT !.salp1a = n.salp1, !.calp1a = n.calp1]
  ELSE n

RECURSIVE IterRun(_, _, _)
IterEval(g, c, n, L) ==
  IF NewtonExit(n, L.lam12) THEN [n |-> n, L |-> L]
  ELSE IterRun(g, c, IterStep(IterBracket(n, L.lam12), L.lam12, L.dlam12))

IterRun(g, c, n) ==
  IterEval(g, c, n, Lambda12(g, c, n.salp1, n.calp1, n.numit < maxit1))

IterStart(salp1, calp1) ==
  [numit |-> 0, tripn |-> FALSE, tripb |-> FALSE, salp1 |-> salp1, calp1 |-> calp1,
   salp1a |-> tiny, calp1a |-> One, salp1b |-> tiny, calp1b |-> Neg(One)]

\* The results Lengths is asked for at 803-807 and 935-938.
InvWant(outmask) ==
  {"s12b", "m12b"} \cup
  (IF Has(outmask, GEOD_GEODESICSCALE) THEN {"M12", "M21"} ELSE {})

\* 935-948: the general case after the loop.  evals counts the evaluations
\* of Lambda12 the loop made.
InvNewtonLen(g, c, outmask, it, len) ==
  [meridian |-> FALSE, path |-> "newton", evals |-> it.n.numit + 1,
   mer |-> Unset, start |-> Unset,
   s12x |-> Mul(len.s12b, g.b), m12x |-> Mul(len.m12b, g.b),
   M12 |-> len.M12, M21 |-> len.M21,
   a12 |-> Div(it.L.sig12, degree), sig12 |-> it.L.sig12,
   salp1 |-> it.n.salp1, calp1 |-> it.n.calp1,
   salp2 |-> it.L.salp2, calp2 |-> it.L.calp2,
   omg12 |-> Zero,
   somg12 |-> IF Has(outmask, GEOD_AREA)
              THEN Sub(Mul(c.slam12, cos(it.L.domg12)), Mul(c.clam12, sin(it.L.domg12)))
              ELSE D(2),
   comg12 |-> IF Has(outmask, GEOD_AREA)
              THEN Add(Mul(c.clam12, cos(it.L.domg12)), Mul(c.slam12, sin(it.L.domg12)))
              ELSE Zero]

InvNewton(g, c, outmask, it) ==
  InvNewtonLen(g, c, outmask, it,
               Lengths(g, it.L.eps, it.L.sig12, it.L.ssig1, it.L.csig1, c.dn1,
                       it.L.ssig2, it.L.csig2, c.dn2, c.cbet1, c.cbet2,
                       InvWant(outmask)))

\* 855-862: short lines.
InvShort(g, c, outmask, s) ==
  [meridian |-> FALSE, path |-> "short", evals |-> 0,
   mer |-> Unset, start |-> Unset,
   s12x |-> Mul(Mul(s.sig12, g.b), s.dnm),
   m12x |-> Mul(Mul(sq(s.dnm), g.b), sin(Div(s.sig12, s.dnm))),
   M12 |-> IF Has(outmask, GEOD_GEODESICSCALE) THEN cos(Div(s.sig12, s.dnm)) ELSE Zero,
   M21 |-> IF Has(outmask, GEOD_GEODESICSCALE) THEN cos(Div(s.sig12, s.dnm)) ELSE Zero,
   a12 |-> Div(s.sig12, degree), sig12 |-> s.sig12,
   salp1 |-> s.salp1, calp1 |-> s.calp1, salp2 |-> s.salp2, calp2 |-> s.calp2,
   omg12 |-> Div(c.lam12, Mul(g.f1, s.dnm)), somg12 |-> D(2), comg12 |-> Zero]

\* The short line of InverseStart, taken whatever sig12 it returned.
InvStart_Short(g, c, outmask, s) ==
  [InvShort(g, c, outmask, s) EXCEPT !.start = s.sig12]

\* 850-864: start is the sig12 that InverseStart returned.
InvStart(g, c, outmask, s) ==
  [IF Ge(s.sig12, Zero) THEN InvShort(g, c, outmask, s)
   ELSE InvNewton(g, c, outmask, IterRun(g, c, IterStart(s.salp1, s.calp1)))
   EXCEPT !.start = s.sig12]

\* 834-841: the geodesic runs along the equator.
InvEquator(g, c, outmask, sig12) ==
  [meridian |-> FALSE, path |-> "equator", evals |-> 0,
   mer |-> Unset, start |-> Unset,
   s12x |-> Mul(g.a, c.lam12), m12x |-> Mul(g.b, sin(sig12)),
   M12 |-> IF Has(outmask, GEOD_GEODESICSCALE) THEN cos(sig12) ELSE Zero,
   M21 |-> IF Has(outmask, GEOD_GEODESICSCALE) THEN cos(sig12) ELSE Zero,
   a12 |-> Div(c.lon12, g.f1), sig12 |-> sig12,
   salp1 |-> One, calp1 |-> Zero, salp2 |-> One, calp2 |-> Zero,
   omg12 |-> sig12, somg12 |-> D(2), comg12 |-> Zero]

\* 829-949: the cases that are not meridional.
InvOther(g, c, outmask) ==
  IF Eq(c.sbet1, Zero) /\ (Le(g.f, Zero) \/ Ge(c.lon12s, Mul(g.f, Deg(hd))))
  THEN InvEquator(g, c, outmask, Div(c.lam12, g.f1))
  ELSE InvStart(g, c, outmask, InverseStart(g, c))

\* 787-827: the endpoints are on one full meridian.  mer holds the sig12
\* and the m12x of the meridional case where it was tried.
InvMeridianZero(g, c, sig12, len, zero) ==
  [meridian |-> TRUE, path |-> "meridian", evals |-> 0,
   mer |-> [sig12 |-> sig12, m12x |-> len.m12b], start |-> Unset,
   s12x |-> Mul(IF zero THEN Zero ELSE len.s12b, g.b),
   m12x |-> Mul(IF zero THEN Zero ELSE len.m12b, g.b),
   M12 |-> len.M12, M21 |-> len.M21,
   a12 |-> Div(IF zero THEN Zero ELSE sig12, degree),
   sig12 |-> IF zero THEN Zero ELSE sig12,
   salp1 |-> c.slam12, calp1 |-> c.clam12, salp2 |-> Zero, calp2 |-> One,
   omg12 |-> Zero, somg12 |-> D(2), comg12 |-> Zero]

InvMeridianLen(g, c, outmask, sig12, len) ==
  IF LtOneRadian(sig12) \/ Ge(len.m12b, Zero)
  THEN InvMeridianZero(g, c, sig12, len,
         \/ Lt(sig12, Mul(D(3), tiny))
         \/ Lt(sig12, tol0) /\ (Lt(len.s12b, Zero) \/ Lt(len.m12b, Zero)))
  ELSE [InvOther(g, c, outmask) EXCEPT !.mer = [sig12 |-> sig12, m12x |-> len.m12b]]

InvMeridianSig(g, c, outmask, ssig1, csig1, ssig2, csig2, sig12) ==
  InvMeridianLen(g, c, outmask, sig12,
                 Lengths(g, g.n, sig12, ssig1, csig1, c.dn1, ssig2, csig2, c.dn2,
                         c.cbet1, c.cbet2, InvWant(outmask)))

InvMeridian(g, c, outmask, ssig1, csig1, ssig2, csig2) ==
  InvMeridianSig(g, c, outmask, ssig1, csig1, ssig2, csig2,
                 Sig12Of(Sub(Mul(csig1, ssig2), Mul(ssig1, csig2)),
                         Add(Mul(csig1, csig2), Mul(ssig1, ssig2))))

\* The meridional case never tried.
InvSolve_Other(g, c, outmask) == InvOther(g, c, outmask)

InvSolve(g, c, outmask) ==
  IF Eq(c.lat1, Neg(Deg(qd))) \/ Eq(c.slam12, Zero)
  THEN InvMeridian(g, c, outmask, c.sbet1, Mul(c.clam12, c.cbet1),
                   c.sbet2, Mul(One, c.cbet2))
  ELSE InvOther(g, c, outmask)

\* 957-982: the part of S12 that the series gives.
InvAreaSeries(g, r, A4, Ca, n1, n2) ==
  Mul(A4, Sub(SinCosSeries(FALSE, n2.s, n2.c, Ca, nC4),
              SinCosSeries(FALSE, n1.s, n1.c, Ca, nC4)))

InvAreaS12(g, c, r, salp0, calp0) ==
  IF Ne(calp0, Zero) /\ Ne(salp0, Zero)
  THEN InvAreaSeries(g, r, Mul(Mul(Mul(sq(g.a), calp0), salp0), g.e2),
                     C4f(g, LineEps(Mul(sq(calp0), g.ep2))),
                     norm2(c.sbet1, Mul(r.calp1, c.cbet1)),
                     norm2(c.sbet2, Mul(r.calp2, c.cbet2)))
  ELSE Zero

\* 987-1012: alp12 = alp2 - alp1.
InvAlp12Fix(salp12, calp12, calp1) ==
  IF Eq(salp12, Zero) /\ Lt(calp12, Zero)
  THEN atan2(Mul(tiny, calp1), Neg(One))
  ELSE atan2(salp12, calp12)

InvAlp12(c, r, somg12, comg12) ==
  IF /\ ~r.meridian
     /\ Gt(Mul(D(10000), comg12), D(-7071))
     /\ Lt(Mul(D(4), Sub(c.sbet2, c.sbet1)), D(7))
  THEN Mul(D(2),
           atan2(Mul(somg12, Add(Mul(c.sbet1, Add(One, c.cbet2)),
                                 Mul(c.sbet2, Add(One, c.cbet1)))),
                 Mul(Add(One, comg12),
                     Add(Mul(c.sbet1, c.sbet2),
                         Mul(Add(One, c.cbet1), Add(One, c.cbet2))))))
  ELSE InvAlp12Fix(Sub(Mul(r.salp2, r.calp1), Mul(r.calp2, r.salp1)),
                   Add(Mul(r.calp2, r.calp1), Mul(r.salp2, r.salp1)),
                   r.calp1)

\* 957-1017: S12, under outmask & GEOD_AREA.
InvAreaSum(g, c, S12, alp12) ==
  Add(Mul(Add(S12, Mul(g.c2, alp12)), D(c.swapp * c.lonsign * c.latsign)), Zero)

InvArea(g, c, r) ==
  InvAreaSum(g, c,
             InvAreaS12(g, c, r, Mul(r.salp1, c.cbet1),
                        hypot(r.calp1, Mul(r.salp1, c.sbet1))),
             IF ~r.meridian /\ Eq(r.somg12, D(2))
             THEN InvAlp12(c, r, sin(r.omg12), cos(r.omg12))
             ELSE InvAlp12(c, r, r.somg12, r.comg12))

\* 951-955 and 1019-1047: the values handed back; salp and calp are turned
\* back by swapp, lonsign and latsign.  An output that is not asked for is 0.
\* canon is the canonical form of 720-756 the problem was solved in.
InvSigns(c, outmask, r, S12, e1, e2) ==
  [a12 |-> r.a12, path |-> r.path, evals |-> r.evals,
   mer |-> r.mer, start |-> r.start,
   bet |-> [sbet1 |-> c.sbet1, sbet2 |-> c.sbet2, slam12 |-> c.slam12,
            lon12s |-> c.lon12s],
   s12 |-> IF Has(outmask, GEOD_DISTANCE) THEN Add(Zero, r.s12x) ELSE Zero,
   m12 |-> IF Has(outmask, GEOD_REDUCEDLENGTH) THEN Add(Zero, r.m12x) ELSE Zero,
   M12 |-> IF c.swapp < 0 /\ Has(outmask, GEOD_GEODESICSCALE) THEN r.M21 ELSE r.M12,
   M21 |-> IF c.swapp < 0 /\ Has(outmask, GEOD_GEODESICSCALE) THEN r.M12 ELSE r.M21,
   S12 |-> S12,
   canon |-> [lon12 |-> c.lon12, lat1 |-> c.lat1, lat2 |-> c.lat2,
              swapp |-> c.swapp, lonsign |-> c.lonsign, latsign |-> c.latsign],
   salp1 |-> Mul(e1.salp, D(c.swapp * c.lonsign)),
   calp1 |-> Mul(e1.calp, D(c.swapp * c.latsign)),
   salp2 |-> Mul(e2.salp, D(c.swapp * c.lonsign)),
   calp2 |-> Mul(e2.calp, D(c.swapp * c.latsign))]

InvResult(g, c, outmask, r) ==
  InvSigns(c, outmask, r,
           IF Has(outmask, GEOD_AREA) THEN InvArea(g, c, r) ELSE Zero,
           IF c.swapp < 0 THEN [salp |-> r.salp2, calp |-> r.calp2]
           ELSE [salp |-> r.salp1, calp |-> r.calp1],
           IF c.swapp < 0 THEN [salp |-> r.salp1, calp |-> r.calp1]
           ELSE [salp |-> r.salp2, calp |-> r.calp2])

InvProblem(g, c, outmask) == InvResult(g, c, outmask, InvSolve(g, c, outmask))

\* 758-783: the reduced latitudes, with bet2 = +-bet1 forced where the
\* measures of |bet1| - |bet2| vanish, and dn1, dn2.
InvDn(g, x, sbet1, cbet1, sbet2, cbet2, outmask) ==
  InvProblem(g,
             x @@ [sbet1 |-> sbet1, cbet1 |-> cbet1, sbet2 |-> sbet2, cbet2 |-> cbet2,
                   dn1 |-> sqrt(Add(One, Mul(g.ep2, sq(sbet1)))),
                   dn2 |-> sqrt(Add(One, Mul(g.ep2, sq(sbet2))))],
             outmask)

InvBet(g, x, b1, b2, outmask) ==
  InvDn(g, x, b1.s, b1.c,
        IF Lt(b1.c, Neg(b1.s)) /\ Eq(b2.c, b1.c) THEN copysign(b1.s, b2.s) ELSE b2.s,
        IF ~Lt(b1.c, Neg(b1.s)) /\ Eq(fabs(b2.s), Neg(b1.s)) THEN b1.c ELSE b2.c,
        outmask)

\* 733-745: the latitudes; point 1 becomes the one of the higher |lat|, at
\* lat1 <= -0.
InvLatSign(g, x, lat1, lat2, latsign, outmask) ==
  InvBet(g, x @@ [latsign |-> latsign, lat1 |-> Mul(lat1, D(latsign)),
                  lat2 |-> Mul(lat2, D(latsign))],
         Beta(Mul(lat1, D(latsign)), g.f1), Beta(Mul(lat2, D(latsign)), g.f1),
         outmask)

InvSwapped(g, x, lat1, lat2, outmask) ==
  InvLatSign(g, x, lat1, lat2, IF signbit(lat1) THEN 1 ELSE -1, outmask)

\* The points left in the order given.
InvSwap_Never(g, x, lat1, lat2, swapp, outmask) ==
  InvSwapped(g, [x EXCEPT !.swapp = 1], lat1, lat2, outmask)

InvSwap(g, x, lat1, lat2, swapp, outmask) ==
  InvSwapped(g, [x EXCEPT !.swapp = swapp, !.lonsign = @ * swapp],
             IF swapp < 0 THEN lat2 ELSE lat1, IF swapp < 0 THEN lat1 ELSE lat2,
             outmask)

\* The points swapped by the latitudes alone: a NaN lat2 stays.
InvLon12_NoNaN(g, lat1, lat2, lonsign, lon12, lon12s, outmask) ==
  InvSwap(g,
          [lonsign |-> lonsign, swapp |-> 1, lon12 |-> lon12,
           lam12 |-> Mul(lon12, degree),
           slam12 |-> sincosde(lon12, lon12s).s,
           clam12 |-> sincosde(lon12, lon12s).c,
           lon12s |-> Sub(Sub(Deg(hd), lon12), lon12s)],
          lat1, lat2,
          IF Lt(fabs(lat1), fabs(lat2)) THEN -1 ELSE 1,
          outmask)

\* 723-730: the longitude difference, made positive, and the test of the swap at 735.
InvLon12(g, lat1, lat2, lonsign, lon12, lon12s, outmask) ==
  InvSwap(g,
          [lonsign |-> lonsign, swapp |-> 1, lon12 |-> lon12,
           lam12 |-> Mul(lon12, degree),
           slam12 |-> sincosde(lon12, lon12s).s,
           clam12 |-> sincosde(lon12, lon12s).c,
           lon12s |-> Sub(Sub(Deg(hd), lon12), lon12s)],
          lat1, lat2,
          IF Lt(fabs(lat1), fabs(lat2)) \/ Ne(lat2, lat2) THEN -1 ELSE 1,
          outmask)

InvLonSign(g, lat1, lat2, ad, lonsign, outmask) ==
  InvLon12(g, lat1, lat2, lonsign, Mul(ad.d, D(lonsign)), Mul(ad.e, D(lonsign)),
           outmask)

\* The longitude difference left as it is.
InvLon_AsGiven(g, lat1, lat2, ad, outmask) ==
  InvLonSign(g, lat1, lat2, ad, 1, outmask)

InvLon(g, lat1, lat2, ad, outmask) ==
  InvLonSign(g, lat1, lat2, ad, IF signbit(ad.d) THEN -1 ELSE 1, outmask)

\* geod_geninverse_int for the outmask its pointers make: the value returned
\* (a12) and the values stored, with the case taken (path) and the number
\* of evaluations of Lambda12 (evals).
geod_geninverse_int(g, lat1, lon1, lat2, lon2, outmask) ==
  InvLon(g, AngRound(LatFix(lat1)), AngRound(LatFix(lat2)), AngDiff(lon1, lon2),
         outmask \cap OUT_ALL)

\* The output locations of geod_geninverse.
InvPtrs == {"s12", "azi1", "azi2", "m12", "M12", "M21", "S12"}

InvMask(ptrs) ==
  (IF "s12" \in ptrs THEN GEOD_DISTANCE ELSE GEOD_NONE) \cup
  (IF "m12" \in ptrs THEN GEOD_REDUCEDLENGTH ELSE GEOD_NONE) \cup
  (IF "M12" \in ptrs \/ "M21" \in ptrs THEN GEOD_GEODESICSCALE ELSE GEOD_NONE) \cup
  (IF "S12" \in ptrs THEN GEOD_AREA ELSE GEOD_NONE)

\* geod_geninverse: o holds the caller's locations; int is what
\* geod_geninverse_int handed back.
\* The azimuths stored at each other's location.
InvStore_Crossed(ptrs, o, r) ==
  [ret |-> r.a12, int |-> r,
   out |-> [n \in InvPtrs |->
              IF n \notin ptrs THEN o[n]
              ELSE CASE n = "s12" -> r.s12
                     [] n = "azi1" -> atan2dx(r.salp2, r.calp2)
                     [] n = "azi2" -> atan2dx(r.salp1, r.calp1)
                     [] n = "m12" -> r.m12
                     [] n = "M12" -> r.M12
                     [] n = "M21" -> r.M21
                     [] n = "S12" -> r.S12]]

InvStore(ptrs, o, r) ==
  [ret |-> r.a12, int |-> r,
   out |-> [n \in InvPtrs |->
              IF n \notin ptrs THEN o[n]
              ELSE CASE n = "s12" -> r.s12
                     [] n = "azi1" -> atan2dx(r.salp1, r.calp1)
                     [] n = "azi2" -> atan2dx(r.salp2, r.calp2)
                     [] n = "m12" -> r.m12
                     [] n = "M12" -> r.M12
                     [] n = "M21" -> r.M21
                     [] n = "S12" -> r.S12]]

geod_geninverse(g, lat1, lon1, lat2, lon2, ptrs, o) ==
  InvStore(ptrs, o, geod_geninverse_int(g, lat1, lon1, lat2, lon2, InvMask(ptrs)))

--------------------------------------------------------------------------
(* Positions on a geodesic line: geod_lineinit and geod_genposition. *)

\* Latitudes, azimuths and lengths the lines are made of.
LineLats == {D(-1), Zero, D(1)}

LineAzis == {Zero, D(1)}

LineDists == {D(1), D(2)}

\* The caps a line is made with: 0 (the default), and masks with and
\* without GEOD_DISTANCE_IN.
LineCaps ==
  {GEOD_NONE, GEOD_LATITUDE \cup GEOD_LONGITUDE, GEOD_DISTANCE \cup GEOD_AZIMUTH,
   GEOD_DISTANCE_IN \cup GEOD_LATITUDE, GEOD_ALL}

\* The pointers a call passes.
PtrSets == {{"lat2", "lon2", "azi2"}, {"s12", "azi2"}, Ptrs}

\* Calls made on one line.
MaxCalls == 2

\* The lines geod_lineinit makes from these.
Lines ==
  {geod_lineinit(Sphere, lat, Zero, azi, caps) :
     lat \in LineLats, azi \in LineAzis, caps \in LineCaps}

\* The caller's side before any call: the locations hold 0.
Out0 ==
  [loc |-> [n \in Ptrs |-> Zero], ret |-> Zero, calls |-> 0, call |-> [op |-> "none"]]

\* The caller's side after geod_lineinit with the caps given.
LineMade(caps) == [Out0 EXCEPT !.call = [op |-> "lineinit", caps |-> caps]]

LineInitState ==
  /\ \E lat \in LineLats, azi \in LineAzis, caps \in LineCaps :
       /\ line = geod_lineinit(Sphere, lat, Zero, azi, caps)
       /\ out = LineMade(caps)
  /\ nw = Idle /\ poly = Idle

\* geod_lineinit on the struct, by a caller with fresh locations.
LineInit ==
  /\ \E lat \in LineLats, azi \in LineAzis, caps \in LineCaps :
       /\ line' = geod_lineinit(Sphere, lat, Zero, azi, caps)
       /\ out' = LineMade(caps)
  /\ UNCHANGED <<nw, poly>>

GenPosition ==
  /\ out.calls < MaxCalls
  /\ \E flags \in {GEOD_NOFLAGS, GEOD_ARCMODE}, s \in LineDists, ptrs \in PtrSets :
       LET r == geod_genposition(line, flags, s, ptrs, out.loc)
       IN out' = [loc |-> r.out, ret |-> r.ret, calls |-> out.calls + 1,
                  call |-> [op |-> "genposition", flags |-> flags, ptrs |-> ptrs,
                            s12_a12 |-> s, caps |-> line.caps, before |-> out.loc]]
  /\ UNCHANGED <<nw, poly, line>>

NextLine == LineInit \/ GenPosition

SpecLine == LineInitState /\ [][NextLine]_vars

\* The last call was geod_genposition in distance mode on a line whose caps
\* lack GEOD_DISTANCE_IN.
DistanceRefused ==
  /\ out.call.op = "genposition"
  /\ ~Has(out.call.flags, GEOD_ARCMODE)
  /\ "DISTANCE_IN" \notin out.call.caps

\* C2 (as the code has it): geod_genposition in distance mode on a line
\* without GEOD_DISTANCE_IN returns NaN and stores to no output location:
\* every location keeps the value it had before the call.
C2_RefusedLeavesOutputs ==
  DistanceRefused => out.ret.nan /\ out.loc = out.call.before

\* C2 (as stated): such a call returns NaN and every requested output is NaN.
C2_RefusedOutputsNaN ==
  DistanceRefused => out.ret.nan /\ \A n \in out.call.ptrs : out.loc[n].nan

\* A refused call that was asked for every output, after an earlier call
\* had stored a latitude that is no NaN.
C2_Witness ==
  /\ DistanceRefused
  /\ out.call.ptrs = Ptrs
  /\ ~out.loc["lat2"].nan /\ Ne(out.loc["lat2"], Zero)

--------------------------------------------------------------------------
(* Calls of the direct and the inverse solver on the sphere. *)

\* Latitudes, with two that are out of range (180 degrees and a NaN),
\* longitudes, azimuths and lengths the calls are made with.
GeoLats == {D(-1), Zero, D(1), D(2), NaN}

GeoLons == {D(-1), Zero, D(1), D(2)}

GeoAzis == {D(-1), Zero, D(1), D(2)}

GeoDists == {Zero, D(1), D(2), D(3)}

\* The pointers the calls pass: all of geod_geninverse, and those of
\* geod_direct.
DirectPtrs == {"lat2", "lon2", "azi2"}

GeoIdle == [op |-> "idle"]

GeoInit == out = GeoIdle /\ nw = Idle /\ poly = Idle /\ line = Idle

DirectCall(op, lat1, lon1, azi1, flags, s12_a12, prev, r) ==
  [op |-> op, lat1 |-> lat1, lon1 |-> lon1, azi1 |-> azi1, flags |-> flags,
   s12_a12 |-> s12_a12, ret |-> r.ret, res |-> r.out, prev |-> prev]

InverseCall(op, lat1, lon1, lat2, lon2, prev, r) ==
  [op |-> op, lat1 |-> lat1, lon1 |-> lon1, lat2 |-> lat2, lon2 |-> lon2,
   ret |-> r.ret, res |-> r.out, int |-> r.int, prev |-> prev]

\* The direct problems a caller asks for: any, when it holds no result; the
\* one made of the distance and the azimuth of the inverse problem it has
\* just solved.
DirectArgs ==
  IF out.op = "idle"
  THEN {<<"direct", lat1, lon1, azi1, flags, s>> :
          lat1 \in GeoLats, lon1 \in {Zero, D(1)}, azi1 \in GeoAzis,
          flags \in {GEOD_NOFLAGS, GEOD_ARCMODE}, s \in GeoDists}
  ELSE IF out.op = "inverse"
  THEN {<<"direct_of_inverse", out.lat1, out.lon1, out.res["azi1"], GEOD_NOFLAGS,
          out.res["s12"]>>}
  ELSE {}

\* geod_gendirect.
Direct ==
  /\ \E a \in DirectArgs :
       out' = DirectCall(a[1], a[2], a[3], a[4], a[5], a[6], out,
                         geod_gendirect(Sphere, a[2], a[3], a[4], a[5], a[6],
                                        DirectPtrs, [n \in Ptrs |-> Zero]))
  /\ UNCHANGED <<nw, poly, line>>

\* The inverse problems a caller asks for: any, when it holds no result; the
\* one it has just solved, from the other end; the one between the start of
\* the direct problem it has just solved by distance and the end it was
\* given.
InverseArgs ==
  IF out.op = "idle"
  THEN {<<"inverse", lat1, lon1, lat2, lon2>> :
          lat1 \in GeoLats, lon1 \in GeoLons, lat2 \in GeoLats, lon2 \in GeoLons}
  ELSE IF out.op = "inverse"
  THEN {<<"inverse_swapped", out.lat2, out.lon2, out.lat1, out.lon1>>}
  ELSE IF out.op = "direct" /\ out.flags = GEOD_NOFLAGS
  THEN {<<"inverse_of_direct", out.lat1, out.lon1, out.res["lat2"], out.res["lon2"]>>}
  ELSE {}

\* geod_geninverse.
Inverse ==
  /\ \E a \in InverseArgs :
       out' = InverseCall(a[1], a[2], a[3], a[4], a[5], out,
                          geod_geninverse(Sphere, a[2], a[3], a[4], a[5], InvPtrs,
                                          [n \in InvPtrs |-> Zero]))
  /\ UNCHANGED <<nw, poly, line>>

\* The caller is done with the results.
GeoReturn ==
  /\ out.op # "idle"
  /\ out' = GeoIdle
  /\ UNCHANGED <<nw, poly, line>>

NextGeo == Direct \/ Inverse \/ GeoReturn

SpecGeo == GeoInit /\ [][NextGeo]_vars

\* A latitude beyond 90 degrees.
BadLat(x) == Gt(fabs(x), Deg(qd))

\* C3: a latitude with |lat| > 90 is replaced by NaN by LatFix; the direct
\* problem then returns NaN for lat2, lon2 and azi2, and the inverse problem
\* returns a NaN distance, having left the loop of Newton's method at the
\* first evaluation of Lambda12.
C3_BadLatitude ==
  /\ out.op = "direct" /\ BadLat(out.lat1)
       => /\ LatFix(out.lat1).nan
          /\ out.res["lat2"].nan /\ out.res["lon2"].nan /\ out.res["azi2"].nan
  /\ out.op = "inverse" /\ (BadLat(out.lat1) \/ BadLat(out.lat2))
       => /\ LatFix(out.lat1).nan \/ LatFix(out.lat2).nan
          /\ out.res["s12"].nan
          /\ out.int.path = "newton" /\ out.int.evals = 1

\* An inverse problem from a latitude of 180 degrees to a point of the
\* equator has been solved, by the general case.
C3_Witness ==
  /\ out.op = "inverse" /\ BadLat(out.lat1) /\ ~out.lat1.nan
  /\ Eq(out.lat2, Zero) /\ out.int.path = "newton"

---------------------------------------------------------------------------
(* Polygons: one accumulator, points and edges added to it and results    *)
(* read from it.                                                          *)

\* The vertices a caller gives, the edges it adds, and the longitudes the
\* ends of the edges may reach.
PolyPts ==
  {<<Zero, Zero>>, <<Zero, D(1)>>, <<Zero, D(2)>>, <<Zero, D(-1)>>,
   <<D(1), Zero>>, <<D(-1), Zero>>}

PolyAzis == {Zero, D(1)}

PolyDists == {D(3), D(4)}

MaxNum == 3

MaxLon == 7

PolyBox ==
  {D(-1), NegZero, Zero, D(1)} \X ({NegZero} \cup {D(i) : i \in -1 .. MaxLon})

InBox(lat, lon) == <<lat, lon>> \in PolyBox

InverseOut(o) == [s12 |-> o["s12"], S12 |-> o["S12"]]

DirectOut(o) == [lat2 |-> o["lat2"], lon2 |-> o["lon2"], S12 |-> o["S12"]]

\* geod_init, with the solvers on the box and the vertices pts.
PolyGeodOn(g, pts) ==
  [c2 |-> g.c2,
   inverse |->
     [q \in {<<a[1], a[2], b[1], b[2]>> : a \in PolyBox, b \in pts} |->
        InverseOut(geod_geninverse(g, q[1], q[2], q[3], q[4], {"s12", "S12"},
                                   [n \in InvPtrs |-> Zero]).out)],
   direct |->
     [q \in {<<a[1], a[2], azi, s>> : a \in PolyBox, azi \in PolyAzis, s \in PolyDists} |->
        DirectOut(geod_gendirect(g, q[1], q[2], q[3], GEOD_LONG_UNROLL, q[4],
                                 {"lat2", "lon2", "S12"}, [n \in Ptrs |-> Zero]).out)]]

PolyGeod(g) == PolyGeodOn(g, PolyPts)

\* What *pA and *pP hold before a call.
PolyOut0 == [pA |-> Unset, pP |-> Unset]

PolyCall(op, lat, lon, azi, s, reverse, sign, r) ==
  [op |-> op, lat |-> lat, lon |-> lon, azi |-> azi, s |-> s,
   reverse |-> reverse, sign |-> sign, ret |-> r.ret, pA |-> r.pA, pP |-> r.pP]

\* geod_init and geod_polygon_init.
PolyInit ==
  /\ poly \in {[g |-> PolyGeod(Sphere), p |-> geod_polygon_init(polylinep)] :
                 polylinep \in BOOLEAN}
  /\ out = GeoIdle
  /\ nw = Idle /\ line = Idle

PolygonClear ==
  /\ out.op = "idle" /\ poly.p.num > 0
  /\ poly' = [poly EXCEPT !.p = geod_polygon_clear(@)]
  /\ UNCHANGED <<nw, line, out>>

AddPoint ==
  /\ out.op = "idle" /\ poly.p.num < MaxNum
  /\ \E pt \in PolyPts :
       poly' = [poly EXCEPT !.p = geod_polygon_addpoint(poly.g, @, pt[1], pt[2])]
  /\ UNCHANGED <<nw, line, out>>

\* The end of the edge, where there is one to add.
EdgeInBox(azi, s) ==
  IF poly.p.num = 0 THEN TRUE
  ELSE InBox(PolyDirect(poly.g, poly.p.lat, poly.p.lon, azi, s).lat2,
             PolyDirect(poly.g, poly.p.lat, poly.p.lon, azi, s).lon2)

AddEdge ==
  /\ out.op = "idle" /\ poly.p.num < MaxNum
  /\ \E azi \in PolyAzis, s \in PolyDists :
       /\ EdgeInBox(azi, s)
       /\ poly' = [poly EXCEPT !.p = geod_polygon_addedge(poly.g, @, azi, s)]
  /\ UNCHANGED <<nw, line, out>>

PolyStore(op, lat, lon, azi, s, reverse, sign, r) ==
  /\ poly' = [poly EXCEPT !.p = r.p]
  /\ out' = PolyCall(op, lat, lon, azi, s, reverse, sign, r)
  /\ UNCHANGED <<nw, line>>

Compute ==
  /\ out.op = "idle"
  /\ \E reverse \in BOOLEAN, sign \in BOOLEAN :
       PolyStore("compute", NaN, NaN, NaN, NaN, reverse, sign,
                 geod_polygon_compute(poly.g, poly.p, reverse, sign, PolyOut0))

TestPoint ==
  /\ out.op = "idle"
  /\ \E pt \in PolyPts, reverse \in BOOLEAN, sign \in BOOLEAN :
       PolyStore("testpoint", pt[1], pt[2], NaN, NaN, reverse, sign,
                 geod_polygon_testpoint(poly.g, poly.p, pt[1], pt[2], reverse, sign,
                                        PolyOut0))

TestEdge ==
  /\ out.op = "idle"
  /\ \E azi \in PolyAzis, s \in PolyDists, reverse \in BOOLEAN, sign \in BOOLEAN :
       /\ EdgeInBox(azi, s)
       /\ PolyStore("testedge", NaN, NaN, azi, s, reverse, sign,
                    geod_polygon_testedge(poly.g, poly.p, azi, s, reverse, sign,
                                          PolyOut0))

\* The caller is done with the results.
PolyReturn ==
  /\ out.op # "idle"
  /\ out' = GeoIdle
  /\ UNCHANGED <<nw, poly, line>>

NextPoly ==
  PolygonClear \/ AddPoint \/ AddEdge \/ Compute \/ TestPoint \/ TestEdge
  \/ PolyReturn

SpecPoly == PolyInit /\ [][NextPoly]_vars

\* A sum computed without rounding error.
ExactSum(x, y) == IsZero(sumx(x, y).t)

\* The accumulators hold no rounding error.
ExactAcc(p) == IsZero(p.P[2]) /\ IsZero(p.A[2])

\* The sums of areareduceB on the area sum `area` are exact.
ExactReduceRange(area, area0, sign) ==
  IF sign
  THEN IF Gt(area, Div(area0, D(2))) THEN ExactSum(area, Neg(area0))
       ELSE IF Le(area, Div(Neg(area0), D(2))) THEN ExactSum(area, area0)
       ELSE TRUE
  ELSE IF Ge(area, area0) THEN ExactSum(area, Neg(area0))
       ELSE IF Lt(area, Zero) THEN ExactSum(area, area0)
       ELSE TRUE

ExactReduce(area, area0, crossings, reverse, sign) ==
  /\ crossings % 2 = 1 =>
       ExactSum(remainder(area, area0), HalfTurn(remainder(area, area0), area0))
  /\ ExactReduceRange(ReduceBSense(ReduceBCross(remainder(area, area0), area0,
                                                crossings), reverse),
                      area0, sign)

\* The three sums a, a + x, a + x + y are exact.
ExactSums(a, x, y) == ExactSum(a, x) /\ ExactSum(Add(a, x), y)

\* geod_polygon_addpoint followed by geod_polygon_compute, for the call of
\* geod_polygon_testpoint that has just returned.
AddPointCompute ==
  geod_polygon_compute(poly.g,
                       geod_polygon_addpoint(poly.g, poly.p, out.lat, out.lon),
                       out.reverse, out.sign, PolyOut0)

\* The two edges that call met, and its sums.
TestPointMet ==
  TestPointSums(poly.p, out.lon,
                PolyInverse(poly.g, poly.p.lat, poly.p.lon, out.lat, out.lon),
                PolyInverse(poly.g, out.lat, out.lon, poly.p.lat0, poly.p.lon0))

\* No rounding happened in that call.
TestPointExact ==
  /\ ExactAcc(poly.p)
  /\ ExactSum(poly.p.P[1],
              PolyInverse(poly.g, poly.p.lat, poly.p.lon, out.lat, out.lon).s12)
  /\ ~poly.p.polyline =>
       /\ ExactSums(poly.p.P[1],
                    PolyInverse(poly.g, poly.p.lat, poly.p.lon, out.lat, out.lon).s12,
                    PolyInverse(poly.g, out.lat, out.lon, poly.p.lat0, poly.p.lon0).s12)
       /\ ExactSums(poly.p.A[1],
                    PolyInverse(poly.g, poly.p.lat, poly.p.lon, out.lat, out.lon).S12,
                    PolyInverse(poly.g, out.lat, out.lon, poly.p.lat0, poly.p.lon0).S12)
       /\ ExactReduce(TestPointMet.tempsum, Area0(poly.g), TestPointMet.crossings,
                      out.reverse, out.sign)

\* C4: geod_polygon_compute, geod_polygon_testpoint and geod_polygon_testedge
\* leave the accumulator as it was: num, crossings, P, A, (lat, lon) and
\* (lat0, lon0) are the same after the call as before it.
C4_AccumulatorUnchanged ==
  [][out'.op \in {"compute", "testpoint", "testedge"} => poly'.p = poly.p]_vars

\* Each of the three has returned from a polygon of two or more vertices.
C4_Witness ==
  /\ out.op = "testedge" /\ ~poly.p.polyline /\ poly.p.num = MaxNum
  /\ ~IsZero(out.pA)

\* C5 as stated: geod_polygon_testpoint returns the vertex count, perimeter
\* and area of geod_polygon_addpoint followed by geod_polygon_compute, in
\* every state of the accumulator.
C5_TestPointIsAddCompute ==
  out.op = "testpoint" =>
    /\ out.ret = AddPointCompute.ret
    /\ out.pP = AddPointCompute.pP
    /\ out.pA = AddPointCompute.pA

\* C5, amended: the vertex counts are the same in every state; the
\* perimeters and the areas are the same where no sum was rounded, in the
\* accumulators or in the call.
C5_TestPointIsAddComputeExact ==
  out.op = "testpoint" =>
    /\ out.ret = AddPointCompute.ret
    /\ (poly.p.num = 0 \/ TestPointExact) =>
         /\ out.pP = AddPointCompute.pP
         /\ out.pA = AddPointCompute.pA

\* A point tested on a polygon whose area and perimeter it changes.
C5_Witness ==
  /\ out.op = "testpoint" /\ ~poly.p.polyline /\ poly.p.num = 2
  /\ TestPointExact /\ ~IsZero(out.pA) /\ ~IsZero(out.pP)

\* geod_polygon_addedge followed by geod_polygon_compute, for the call of
\* geod_polygon_testedge that has just returned.
AddEdgeCompute ==
  geod_polygon_compute(poly.g,
                       geod_polygon_addedge(poly.g, poly.p, out.azi, out.s),
                       out.reverse, out.sign, PolyOut0)

\* The end of the edge of that call, the edge closing the polygon, and the
\* sums of the call.
TestEdgeDirect == PolyDirect(poly.g, poly.p.lat, poly.p.lon, out.azi, out.s)

TestEdgeInverse ==
  PolyInverse(poly.g, TestEdgeDirect.lat2, TestEdgeDirect.lon2,
              poly.p.lat0, poly.p.lon0)

TestEdgeMet == TestEdgeClose(poly.p, out.s, TestEdgeDirect, TestEdgeInverse)

\* No rounding happened in that call.
TestEdgeExact ==
  /\ ExactAcc(poly.p)
  /\ ExactSum(poly.p.P[1], out.s)
  /\ ~poly.p.polyline =>
       /\ ExactSums(poly.p.P[1], out.s, TestEdgeInverse.s12)
       /\ ExactSums(poly.p.A[1], TestEdgeDirect.S12, TestEdgeInverse.S12)
       /\ ExactReduce(TestEdgeMet.tempsum, Area0(poly.g), TestEdgeMet.crossings,
                      out.reverse, out.sign)

\* C6 as stated: geod_polygon_testedge returns the vertex count, perimeter
\* and area of geod_polygon_addedge followed by geod_polygon_compute, in
\* every state of the accumulator.
C6_TestEdgeIsAddCompute ==
  out.op = "testedge" =>
    /\ out.ret = AddEdgeCompute.ret
    /\ out.pP = AddEdgeCompute.pP
    /\ out.pA = AddEdgeCompute.pA

\* C6, amended: on an empty accumulator both return 0, geod_polygon_testedge
\* with NaN for the perimeter and for the area of a polygon, the other two
\* with 0 for them; on any other the vertex counts are the same, and the
\* perimeters and the areas are the same where no sum was rounded.
C6_TestEdgeIsAddComputeExact ==
  out.op = "testedge" =>
    IF poly.p.num = 0
    THEN /\ out.ret = 0 /\ AddEdgeCompute.ret = 0
         /\ out.pP = NaN /\ AddEdgeCompute.pP = Zero
         /\ ~poly.p.polyline => out.pA = NaN /\ AddEdgeCompute.pA = Zero
         /\ poly.p.polyline => out.pA = Unset /\ AddEdgeCompute.pA = Unset
    ELSE /\ out.ret = AddEdgeCompute.ret
         /\ TestEdgeExact =>
              /\ out.pP = AddEdgeCompute.pP
              /\ out.pA = AddEdgeCompute.pA

\* An edge tested on a polygon whose area and perimeter it changes.
C6_Witness ==
  /\ out.op = "testedge" /\ ~poly.p.polyline /\ poly.p.num = 2
  /\ TestEdgeExact /\ ~IsZero(out.pA) /\ ~IsZero(out.pP)

---------------------------------------------------------------------------
(* The reduction of an area sum: areareduceA on an accumulator and        *)
(* areareduceB on a double.                                               *)

\* The whole area sums run from -MaxArea to MaxArea units.
MaxArea == 9

\* Area sums: whole numbers of units, and sums of the order of tiny.
AreaSums ==
  {Fl(D(i)) : i \in -MaxArea .. MaxArea} \cup {NegZero, tiny, Neg(tiny)}

\* The rounding errors an accumulator holds with them.
AreaErrs == {Zero, tiny, Neg(tiny)}

\* The accumulators accadd leaves: an error goes with a sum it is small
\* against.
AreaAccs ==
  {s \in AreaSums \X AreaErrs : Eq(s[2], Zero) \/ Ge(fabs(s[1]), D(1))}

AreaCrossings == -1 .. 2

AreaInit ==
  /\ poly \in {[op |-> "sum", area |-> s, crossings |-> c,
                reverse |-> reverse, sign |-> sign, ret |-> NaN] :
                 s \in AreaAccs, c \in AreaCrossings,
                 reverse \in BOOLEAN, sign \in BOOLEAN}
  /\ nw = Idle /\ line = Idle /\ out = Idle

\* areareduceA, as geod_polygon_compute calls it.
AreaReduceA ==
  /\ poly.op = "sum"
  /\ poly' = [poly EXCEPT !.op = "areareduceA",
                          !.ret = areareduceA(poly.area, Area0(Sphere), poly.crossings,
                                              poly.reverse, poly.sign)]
  /\ UNCHANGED <<nw, line, out>>

\* areareduceB, as geod_polygon_testpoint and geod_polygon_testedge call it
\* on their plain sum.
AreaReduceB ==
  /\ poly.op = "sum"
  /\ poly' = [poly EXCEPT !.op = "areareduceB",
                          !.ret = areareduceB(poly.area[1], Area0(Sphere),
                                              poly.crossings, poly.reverse, poly.sign)]
  /\ UNCHANGED <<nw, line, out>>

NextArea == AreaReduceA \/ AreaReduceB

SpecArea == AreaInit /\ [][NextArea]_vars

\* The interval `sign` selects: (-area0/2, area0/2] or [0, area0).
AreaInRange(area, area0, sign) ==
  IF sign
  THEN Gt(area, Div(Neg(area0), D(2))) /\ Le(area, Div(area0, D(2)))
  ELSE Ge(area, Zero) /\ Lt(area, area0)

\* C7: the area returned lies in the interval `sign` selects, for every
\* area sum, every crossing count and either value of reverse.
C7_AreaInRange ==
  poly.op \in {"areareduceA", "areareduceB"} =>
    AreaInRange(poly.ret, Area0(Sphere), poly.sign)

---------------------------------------------------------------------------
(* A polygon computed from its vertices in order and in reversed order.   *)

\* The longest vertex sequence.
MaxVerts == 3

RECURSIVE SeqsUpTo(_, _)
SeqsUpTo(S, n) ==
  IF n = 0 THEN {<<>>}
  ELSE LET shorter == SeqsUpTo(S, n - 1)
       IN shorter \cup {Append(q, x) : q \in shorter, x \in S}

Reversed(q) == [i \in 1 .. Len(q) |-> q[Len(q) + 1 - i]]

\* The loop of geod_polygonarea: geod_polygon_addpoint on every vertex from
\* the i-th on.
RECURSIVE AddPoints(_, _, _, _)
AddPoints(g, p, pts, i) ==
  IF i > Len(pts) THEN p
  ELSE AddPoints(g, geod_polygon_addpoint(g, p, pts[i][1], pts[i][2]), pts, i + 1)

\* geod_polygonarea, with the arguments of geod_polygon_compute left open.
PolygonOf(g, pts, reverse, sign) ==
  geod_polygon_compute(g, AddPoints(g, geod_polygon_init(FALSE), pts, 1),
                       reverse, sign, PolyOut0)

\* The vertices of the polygons that are reversed: those of PolyPts and
\* the point of the equator at 360 degrees.
RevPts == PolyPts \cup {<<Zero, Deg(td)>>}

RevInit ==
  /\ poly = [g |-> PolyGeodOn(Sphere, RevPts)]
  /\ out \in {[op |-> "vertices", pts |-> pts, reverse |-> reverse, sign |-> sign] :
                pts \in SeqsUpTo(RevPts, MaxVerts),
                reverse \in BOOLEAN, sign \in BOOLEAN}
  /\ nw = Idle /\ line = Idle

RevCall(op, pts, o, r) ==
  [op |-> op, pts |-> pts, reverse |-> o.reverse, sign |-> o.sign,
   ret |-> r.ret, pA |-> r.pA, pP |-> r.pP, crossings |-> r.p.crossings,
   A |-> r.p.A, prev |-> o]

RevArgs ==
  IF out.op = "vertices" THEN {<<"polygon", out.pts>>}
  ELSE IF out.op = "polygon" THEN {<<"reversed", Reversed(out.pts)>>}
  ELSE {}

\* The polygon of the vertices, and then the polygon of the same vertices
\* in reversed order.
PolygonArea ==
  /\ \E a \in RevArgs :
       out' = RevCall(a[1], a[2], out, PolygonOf(poly.g, a[2], out.reverse, out.sign))
  /\ UNCHANGED <<nw, poly, line>>

NextRev == PolygonArea

SpecRev == RevInit /\ [][NextRev]_vars

\* x = -y modulo area0.
NegativesMod(x, y, area0) ==
  \/ IsZero(Add(x, y))
  \/ Eq(fabs(Add(x, y)), area0)

\* C8 as stated: the two orders give equal perimeters and areas that are
\* negatives of each other modulo area0, for any vertex sequence.
C8_ReversedOrder ==
  out.op = "reversed" =>
    /\ Eq(out.pP, out.prev.pP)
    /\ NegativesMod(out.pA, out.prev.pA, Area0(Sphere))

\* Three vertices that cross the prime meridian, with areas that differ
\* between the two orders.
C8_Witness ==
  /\ out.op = "reversed"
  /\ Len(out.pts) = MaxVerts
  /\ out.crossings # 0
  /\ ~IsZero(out.pA)
  /\ ~Eq(out.pA, out.prev.pA)
  /\ ~IsZero(out.pP)

---------------------------------------------------------------------------
(* The inverse problem solved from both ends, and the round trips between *)
(* the direct and the inverse problem.                                    *)

\* Both ends of the inverse problem held in out are points: their latitudes
\* are numbers within 90 degrees.
ValidEnds ==
  /\ ~out.lat1.nan /\ ~out.lat2.nan
  /\ ~BadLat(out.lat1) /\ ~BadLat(out.lat2)

Pole(lat) == Eq(fabs(lat), Deg(qd))

\* (s1, c1) = -(s2, c2).
Opposite(s1, c1, s2, c2) == Eq(s1, Neg(s2)) /\ Eq(c1, Neg(c2))

\* The directions of the problem in out are those of the problem before it,
\* swapped and negated.
SwappedNegated ==
  /\ Opposite(out.int.salp1, out.int.calp1, out.prev.int.salp2, out.prev.int.calp2)
  /\ Opposite(out.int.salp2, out.int.calp2, out.prev.int.salp1, out.prev.int.calp1)

Small(d) == ~d.nan /\ (d.m = 0 \/ d.k >= 1)

Near(x, y) == Small(Sub(x, y))

\* Angles that agree to the tolerance, modulo 360 degrees.
NearAngle(x, y) == Small(remainder(Sub(x, y), Deg(td)))

\* (lat, lon) is the point (lat0, lon0); a pole has no longitude.
SamePoint(lat, lon, lat0, lon0) ==
  Near(lat, lat0) /\ (Pole(lat0) \/ NearAngle(lon, lon0))

\* The inverse problem in out is the one between the ends of a direct
\* problem, solved by distance from a point.
InverseOfDirect ==
  /\ out.op = "inverse_of_direct"
  /\ ~out.prev.lat1.nan /\ ~BadLat(out.prev.lat1)

\* The direct problem in out is made of the distance and the azimuth of an
\* inverse problem between two points.
DirectOfInverse ==
  /\ out.op = "direct_of_inverse"
  /\ ~out.prev.lat1.nan /\ ~BadLat(out.prev.lat1)
  /\ ~out.prev.lat2.nan /\ ~BadLat(out.prev.lat2)

AzimuthsBack ==
  /\ NearAngle(out.res["azi1"], out.prev.azi1)
  /\ NearAngle(out.res["azi2"], out.prev.res["azi2"])

PointBack ==
  SamePoint(out.res["lat2"], out.res["lon2"], out.prev.lat2, out.prev.lon2)

---------------------------------------------------------------------------
(* The cases of the inverse problem. *)

\* out holds an inverse problem between two points.
InverseSolved ==
  /\ out.op \in {"inverse", "inverse_swapped", "inverse_of_direct"}
  /\ ValidEnds

\* C11: two points of the same longitude are solved by the meridional case,
\* with no evaluation of Lambda12, and the azimuths are due north or due
\* south: 0 at both ends when the second point is north of the first.
C11_SameLongitude ==
  InverseSolved /\ Eq(out.lon1, out.lon2) =>
    /\ out.int.path = "meridian" /\ out.int.evals = 0
    /\ IsZero(out.int.salp1) /\ IsZero(out.int.salp2)
    /\ Lt(out.lat1, out.lat2)
         => Eq(out.res["azi1"], Zero) /\ Eq(out.res["azi2"], Zero)

\* From the equator northwards to the pole, at a longitude of 90 degrees.
C11_Witness ==
  /\ out.op = "inverse" /\ ValidEnds
  /\ Eq(out.lon1, D(1)) /\ Eq(out.lon2, D(1))
  /\ Eq(out.lat1, Zero) /\ Eq(out.lat2, D(1))
  /\ out.int.path = "meridian" /\ Eq(out.res["azi1"], Zero)

---------------------------------------------------------------------------
(* Threads that call geod_init: the static variables of Init, the flag    *)
(* init that guards them, and the models the calls fill.                  *)

\* The threads, and the models they initialise.
NThreads == 2

NModels == 2

Threads == 1 .. NThreads

Models == 1 .. NModels

realmin == sq(tiny)

\* The static variables, in the order Init assigns them.
InitOrder ==
  <<"digits", "epsilon", "realmin", "pi", "maxit1", "maxit2", "tiny", "tol0",
    "tol1", "tol2", "tolb", "xthresh", "degree", "NaN", "init">>

Statics == {InitOrder[i] : i \in 1 .. Len(InitOrder)}

\* Static storage starts as zero.
StaticZero == [n \in Statics |->
                 IF n \in {"digits", "maxit1", "maxit2", "init"} THEN 0 ELSE Zero]

\* The value the assignment to n stores, from the statics s it reads.
InitValue(n, s) ==
  CASE n = "digits" -> digits
    [] n = "epsilon" -> epsilon
    [] n = "realmin" -> realmin
    [] n = "pi" -> pi
    [] n = "maxit1" -> maxit1
    [] n = "maxit2" -> s["maxit1"] + s["digits"] + 10
    [] n = "tiny" -> IF s["realmin"] = realmin THEN tiny ELSE Zero
    [] n = "tol0" -> s["epsilon"]
    [] n = "tol1" -> Mul(D(200), s["tol0"])
    [] n = "tol2" -> IF s["tol0"] = epsilon THEN tol2 ELSE Zero
    [] n = "tolb" -> s["tol0"]
    [] n = "xthresh" -> Mul(D(1000), s["tol2"])
    [] n = "degree" -> IF s["pi"] = pi THEN degree ELSE Zero
    [] n = "NaN" -> NaN
    [] n = "init" -> 1

\* A model that geod_init has not filled.
NoModel == [a |-> Unset]

ThreadIdle == [pc |-> "idle", m |-> 0, a |-> Unset, i |-> 0]

InitInit ==
  /\ poly = StaticZero
  /\ line = [m \in Models |-> NoModel]
  /\ out = [t \in Threads |-> ThreadIdle]
  /\ nw = Idle

\* A thread calls geod_init on a model no call has been made on.
GeodInitCall(t) ==
  /\ out[t].pc = "idle"
  /\ \E m \in Models, a \in {One, D(2)} :
       /\ line[m] = NoModel
       /\ \A u \in Threads : out[u].m # m
       /\ out' = [out EXCEPT ![t] = [pc |-> "geod_init", m |-> m, a |-> a, i |-> 0]]
  /\ UNCHANGED <<nw, poly, line>>

\* Thread t is in the assignments of Init.
Assigning(t) == out[t].pc = "assign"

\* The values a read of the static n by thread t may give.  The read is not
\* synchronized with the assignments another thread is in the middle of,
\* and the stores of that thread may reach this one in any order: the read
\* gives what the variable holds, or what that thread is to store.
StaticSeen(t, n) ==
  {poly[n]} \cup
  (IF \E u \in Threads \ {t} : Assigning(u) THEN {InitValue(n, poly)} ELSE {})

\* 299: if (!init) Init();
GeodInitTest(t) ==
  /\ out[t].pc = "geod_init"
  /\ \E init \in StaticSeen(t, "init") :
       out' = [out EXCEPT ![t].pc = IF init = 0 THEN "Init" ELSE "fields"]
  /\ UNCHANGED <<nw, poly, line>>

\* 60: if (!init) {
InitTest(t) ==
  /\ out[t].pc = "Init"
  /\ \E init \in StaticSeen(t, "init") :
       out' = [out EXCEPT ![t].pc = IF init = 0 THEN "assign" ELSE "fields",
                          ![t].i = IF init = 0 THEN 1 ELSE 0]
  /\ UNCHANGED <<nw, poly, line>>

\* 61-84: the assignments of Init, one at a time.
InitAssign(t) ==
  /\ out[t].pc = "assign"
  /\ poly' = [poly EXCEPT ![InitOrder[out[t].i]] = InitValue(InitOrder[out[t].i], poly)]
  /\ out' = [out EXCEPT ![t].pc = IF out[t].i = Len(InitOrder) THEN "fields" ELSE "assign",
                        ![t].i = IF out[t].i = Len(InitOrder) THEN 0 ELSE @ + 1]
  /\ UNCHANGED <<nw, line>>

\* 300-325: the fields of the model, and the return.
GeodInitFields(t) ==
  /\ out[t].pc = "fields"
  /\ \E t2 \in StaticSeen(t, "tol2") :
       line' = [line EXCEPT ![out[t].m] =
                  [geod_init(out[t].a, Zero) EXCEPT !.etol2 = Mul(D(2), t2)]]
  /\ out' = [out EXCEPT ![t].pc = "returned"]
  /\ UNCHANGED <<nw, poly>>

\* The thread goes on to use its model, without writing to it, and may
\* call geod_init again.
GeodUse(t) ==
  /\ out[t].pc = "returned"
  /\ out' = [out EXCEPT ![t] = [ThreadIdle EXCEPT !.m = out[t].m]]
  /\ UNCHANGED <<nw, poly, line>>

NextInit ==
  \E t \in Threads :
    \/ GeodInitCall(t)
    \/ GeodInitTest(t)
    \/ InitTest(t)
    \/ InitAssign(t)
    \/ GeodInitFields(t)
    \/ GeodUse(t)

SpecInit == InitInit /\ [][NextInit]_vars

\* C12: no static variable is written behind the flag init, so that two
\* threads in their first calls of geod_init make no unsynchronized writes
\* to shared variables: no two threads are in the assignments of Init at
\* once.
C12_NoUnsynchronizedWrites ==
  \A t, u \in Threads : Assigning(t) /\ Assigning(u) => t = u

\* geod_init has returned for model m.
Initialised(m) == line[m] # NoModel

\* C13: once geod_init has returned for a model, no later step writes a
\* field of that model or a static variable.
C13_NothingWrittenAfterInit ==
  [][\A m \in Models :
       Initialised(m) =>
         /\ line'[m] = line[m]
         /\ \A t \in Threads : ~(Assigning(t) /\ out'[t] # out[t])]_vars

---------------------------------------------------------------------------
(* The target of a geodesic line: geod_gensetdistance, between position   *)
(* queries.                                                               *)

\* geod_setdistance with the distance left in lat1 as well.
geod_setdistance_Lat(l, s13) ==
  [l EXCEPT !.lat1 = s13, !.s13 = s13,
            !.a13 = geod_genposition(l, GEOD_NOFLAGS, s13, {},
                                     [n \in Ptrs |-> Zero]).ret]

geod_setdistance(l, s13) ==
  [l EXCEPT !.s13 = s13,
            !.a13 = geod_genposition([l EXCEPT !.s13 = s13], GEOD_NOFLAGS, s13, {},
                                     [n \in Ptrs |-> Zero]).ret]

\* geod_setarc: s13 is the location ps12 of the call.
SetArcStore(l, r) == [l EXCEPT !.s13 = r.out["s12"]]

geod_setarc(l, a13) ==
  SetArcStore([l EXCEPT !.a13 = a13, !.s13 = NaN],
              geod_genposition([l EXCEPT !.a13 = a13, !.s13 = NaN], GEOD_ARCMODE, a13,
                               {"s12"}, [n \in Ptrs |-> NaN]))

geod_gensetdistance(l, flags, s13_a13) ==
  IF Has(flags, GEOD_ARCMODE) THEN geod_setarc(l, s13_a13)
  ELSE geod_setdistance(l, s13_a13)

\* Calls made on one line.
MaxQueries == 3

NoQuery == [op |-> "none"]

TargetInit ==
  /\ line \in Lines
  /\ out = [calls |-> 0, first |-> NoQuery, last |-> NoQuery]
  /\ nw = Idle /\ poly = Idle

\* A position query with every output location, as the caller records it.
Query(flags, s, r, before) ==
  [op |-> "genposition", flags |-> flags, s |-> s, ret |-> r.ret, loc |-> r.out,
   before |-> before]

\* geod_genposition on the line.
Position ==
  /\ out.calls < MaxQueries
  /\ \E flags \in {GEOD_NOFLAGS, GEOD_ARCMODE}, s \in LineDists :
       out' = [calls |-> out.calls + 1,
               first |-> IF out.first = NoQuery
                         THEN Query(flags, s,
                                    geod_genposition(line, flags, s, Ptrs,
                                                     [n \in Ptrs |-> Zero]), line)
                         ELSE out.first,
               last |-> Query(flags, s,
                              geod_genposition(line, flags, s, Ptrs,
                                               [n \in Ptrs |-> Zero]), line)]
  /\ UNCHANGED <<nw, poly, line>>

\* geod_gensetdistance on the line.
SetDistance ==
  /\ out.calls < MaxQueries
  /\ \E flags \in {GEOD_NOFLAGS, GEOD_ARCMODE}, s \in LineDists :
       /\ line' = geod_gensetdistance(line, flags, s)
       /\ out' = [out EXCEPT !.calls = @ + 1,
                             !.last = [op |-> "gensetdistance", flags |-> flags,
                                       s |-> s, before |-> line]]
  /\ UNCHANGED <<nw, poly>>

NextTarget == Position \/ SetDistance

SpecTarget == TargetInit /\ [][NextTarget]_vars

\* The values of two NaNs are not compared: a NaN is a NaN.
SameValue(x, y) == (x.nan /\ y.nan) \/ x = y

\* C14: geod_gensetdistance changes a13 and s13 of the line and nothing
\* else; geod_genposition changes no field, and gives what the first query
\* with the same arguments gave, whatever was called in between.
C14_OnlyTargetChanges ==
  /\ out.last.op = "gensetdistance"
       => [line EXCEPT !.a13 = out.last.before.a13, !.s13 = out.last.before.s13]
            = out.last.before
  /\ out.last.op = "genposition"
       => /\ line = out.last.before
          /\ out.first.flags = out.last.flags /\ out.first.s = out.last.s
               => /\ SameValue(out.first.ret, out.last.ret)
                  /\ \A n \in Ptrs : SameValue(out.first.loc[n], out.last.loc[n])

\* The third call repeats the first query, after a call that has set a
\* target the line did not have.
C14_Witness ==
  /\ out.calls = MaxQueries
  /\ out.last.op = "genposition"
  /\ out.first.flags = out.last.flags /\ out.first.s = out.last.s
  /\ ~out.last.ret.nan
  /\ ~line.s13.nan /\ ~line.a13.nan
  /\ out.first.before.s13.nan

---------------------------------------------------------------------------
(* AngNormalize, and the azimuth geod_lineinit stores. *)

\* The angles run from -MaxTurns to MaxTurns quarter turns.
MaxTurns == 16

\* The angles that are model doubles in this range, with -0 and +-tiny.
Angles ==
  {Fl(D(i)) : i \in -MaxTurns .. MaxTurns} \cup {NegZero, tiny, Neg(tiny)}

AngInit ==
  /\ out \in {[op |-> "angle", x |-> x] : x \in Angles}
  /\ nw = Idle /\ poly = Idle /\ line = Idle

\* AngNormalize(x).
Normalize ==
  /\ out.op = "angle"
  /\ out' = [op |-> "AngNormalize", x |-> out.x, ret |-> AngNormalize(out.x)]
  /\ UNCHANGED <<nw, poly, line>>

\* geod_lineinit with the azimuth x; ret is the azi1 of the line.
LineAzimuth ==
  /\ out.op = "angle"
  /\ \E lat \in LineLats, caps \in {GEOD_NONE, GEOD_ALL} :
       /\ line' = geod_lineinit(Sphere, lat, Zero, out.x, caps)
       /\ out' = [op |-> "geod_lineinit", x |-> out.x, ret |-> line'.azi1]
  /\ UNCHANGED <<nw, poly>>

NextAng == Normalize \/ LineAzimuth

SpecAng == AngInit /\ [][NextAng]_vars

\* y = x modulo 360 degrees.
Congruent(x, y) == IsZero(remainder(Sub(y, x), Deg(td)))

\* C15 as stated: AngNormalize(x) is congruent to x modulo 360 and is in
\* (-180, 180], and so is the azimuth of a line.
C15_HalfOpenRange ==
  out.op \in {"AngNormalize", "geod_lineinit"} =>
    /\ Congruent(out.x, out.ret)
    /\ Gt(out.ret, Deg(-hd)) /\ Le(out.ret, Deg(hd))

\* C15, amended: AngNormalize(x) is congruent to x modulo 360 and is in
\* [-180, 180], with -180 for a negative x only, and so is the azimuth of
\* a line.
C15_ClosedRange ==
  out.op \in {"AngNormalize", "geod_lineinit"} =>
    /\ Congruent(out.x, out.ret)
    /\ Ge(out.ret, Deg(-hd)) /\ Le(out.ret, Deg(hd))
    /\ Eq(out.ret, Deg(-hd)) => signbit(out.x)
    /\ Eq(out.ret, Deg(hd)) => ~signbit(out.x)

\* A line made with the azimuth -540 degrees holds -180.
C15_Witness ==
  /\ out.op = "geod_lineinit" /\ Eq(out.x, D(-6))
  /\ Eq(out.ret, Deg(-hd)) /\ line.azi1 = out.ret

\* The canonical form of the inverse problem in out.
Canon == out.int.canon

\* out holds an inverse problem whose inputs are no NaNs.
InverseOfNumbers ==
  /\ out.op \in {"inverse", "inverse_swapped", "inverse_of_direct"}
  /\ ~out.lat1.nan /\ ~out.lat2.nan /\ ~out.lon1.nan /\ ~out.lon2.nan

\* 0 <= lon12 <= 180, -90 <= lat1 <= -0 and lat1 <= lat2 <= -lat1.
CanonicalForm ==
  /\ Ge(Canon.lon12, Zero) /\ ~signbit(Canon.lon12) /\ Le(Canon.lon12, Deg(hd))
  /\ Ge(Canon.lat1, Deg(-qd)) /\ Le(Canon.lat1, Zero) /\ signbit(Canon.lat1)
  /\ Le(Canon.lat1, Canon.lat2) /\ Le(Canon.lat2, Neg(Canon.lat1))

CanonicalSigns ==
  /\ Canon.swapp \in {-1, 1} /\ Canon.lonsign \in {-1, 1} /\ Canon.latsign \in {-1, 1}

\* C16 as stated: for all inputs that are no NaNs the canonical form holds
\* and the three signs are +-1; a single NaN latitude becomes lat1.
C16_CanonicalAllNumbers ==
  /\ InverseOfNumbers => CanonicalForm /\ CanonicalSigns
  /\ (out.op \in {"inverse", "inverse_swapped", "inverse_of_direct"}
        /\ out.lat1.nan # out.lat2.nan)
       => Canon.lat1.nan

\* C16, amended: the canonical form holds for latitudes within 90 degrees;
\* the three signs are +-1 always; when one latitude alone is a NaN or is
\* beyond 90 degrees, lat1 is a NaN and lat2 is not.
C16_Canonical ==
  /\ InverseSolved => CanonicalForm
  /\ out.op \in {"inverse", "inverse_swapped", "inverse_of_direct"}
       => /\ CanonicalSigns
          /\ LatFix(out.lat1).nan # LatFix(out.lat2).nan
               => Canon.lat1.nan /\ ~Canon.lat2.nan

\* From a point of the equator to the north pole, westwards: the points
\* are swapped, and both the longitudes and the latitudes change sign.
C16_Witness ==
  /\ out.op = "inverse" /\ ValidEnds
  /\ Canon.swapp = -1 /\ Canon.latsign = -1 /\ Canon.lonsign = 1
  /\ Eq(out.lat2, D(1)) /\ Eq(Canon.lat1, D(-1)) /\ Eq(Canon.lon12, D(1))

---------------------------------------------------------------------------
(* The steps that add a vertex to the accumulator. *)

\* The step is geod_polygon_addpoint(lat, lon) on an accumulator that
\* holds a vertex.
AddPointStep(lat, lon) ==
  /\ out.op = "idle" /\ out'.op = "idle"
  /\ poly.p.num >= 1 /\ poly'.p.num = poly.p.num + 1
  /\ poly'.p = geod_polygon_addpoint(poly.g, poly.p, lat, lon)

\* The edge from lon1 to lon2 goes east (1) or west (-1) by the shorter way.
Heading(lon12) == IF Gt(lon12, Zero) THEN 1 ELSE IF Lt(lon12, Zero) THEN -1 ELSE 0

\* The edge crosses the meridian of 180 degrees: its ends, reduced to
\* [-180, 180], are on the two sides of it.
AntimeridianOf(h, a, b) ==
  IF h = 1 /\ Gt(a, Zero) /\ Lt(b, Zero) THEN 1
  ELSE IF h = -1 /\ Lt(a, Zero) /\ Gt(b, Zero) THEN -1
  ELSE 0

Antimeridian(lon1, lon2) ==
  AntimeridianOf(Heading(AngDiff(lon1, lon2).d), AngNormalize(lon1), AngNormalize(lon2))

\* The edge crosses the meridian of 0 degrees: eastwards from a negative
\* longitude to one that is not, or from a positive one to 0; westwards
\* from a longitude that is not negative to a negative one.
PrimeMeridianOf(h, a, b) ==
  IF h = 1 /\ ((Lt(a, Zero) /\ Ge(b, Zero)) \/ (Gt(a, Zero) /\ Eq(b, Zero))) THEN 1
  ELSE IF h = -1 /\ Ge(a, Zero) /\ Lt(b, Zero) THEN -1
  ELSE 0

PrimeMeridian(lon1, lon2) ==
  PrimeMeridianOf(Heading(AngDiff(lon1, lon2).d), AngNormalize(lon1), AngNormalize(lon2))

\* C17 as stated: a vertex added to a polygon changes the crossing counter
\* by +1 when the edge to it crosses the meridian of 180 degrees eastbound,
\* by -1 when it crosses it westbound, and by 0 otherwise.
C17_AntimeridianCounted ==
  [][\A pt \in PolyPts :
       AddPointStep(pt[1], pt[2]) /\ ~poly.p.polyline =>
         poly'.p.crossings - poly.p.crossings = Antimeridian(poly.p.lon, pt[2])]_vars

\* C17, amended: the counter changes by the crossing of the meridian of 0
\* degrees, eastbound +1 and westbound -1, tested on the two longitudes
\* reduced to [-180, 180].
C17_PrimeMeridianCounted ==
  [][\A pt \in PolyPts :
       AddPointStep(pt[1], pt[2]) /\ ~poly.p.polyline =>
         poly'.p.crossings - poly.p.crossings = PrimeMeridian(poly.p.lon, pt[2])]_vars

\* A polygon whose second and third vertex were added across the meridian
\* of 0 degrees, eastwards and then westwards.
C17_Witness ==
  /\ ~poly.p.polyline /\ poly.p.num = 2 /\ poly.p.crossings = 1
  /\ Eq(poly.p.lon0, D(-1)) /\ Eq(poly.p.lon, Zero) /\ Eq(poly.p.lat, Zero)

\* The step is the first geod_polygon_addpoint(lat, lon) since the
\* accumulator was initialised or cleared.
FirstPointStep(lat, lon) ==
  /\ out.op = "idle" /\ out'.op = "idle"
  /\ poly.p.num = 0 /\ poly'.p.num = 1
  /\ poly'.p = geod_polygon_addpoint(poly.g, poly.p, lat, lon)

\* The step is geod_polygon_addedge(azi, s) on an accumulator that holds a
\* vertex.
AddEdgeStep(azi, s) ==
  /\ out.op = "idle" /\ out'.op = "idle"
  /\ poly.p.num >= 1 /\ poly'.p.num = poly.p.num + 1
  /\ EdgeInBox(azi, s)
  /\ poly'.p = geod_polygon_addedge(poly.g, poly.p, azi, s)

\* The vertex (lat, lon) is the current one after the step.
CurrentVertex(lat, lon) ==
  SameValue(poly'.p.lat, lat) /\ SameValue(poly'.p.lon, lon)

\* The perimeter of the polygon closed from (lat, lon) to (lat0, lon0).
ClosedPerimeter(g, p) ==
  accsum(p.P, PolyInverse(g, p.lat, p.lon, p.lat0, p.lon0).s12)

\* C18: the first vertex added since init or clear is (lat0, lon0) and
\* later additions leave it; num counts the additions that took effect;
\* (lat, lon) is the vertex added last; and compute closes the polygon by
\* the inverse problem from (lat, lon) to (lat0, lon0).
C18_VerticesTracked ==
  [][/\ poly'.p # poly.p => poly'.p.num = 0 \/ poly'.p.num = poly.p.num + 1
     /\ poly.p.num >= 1 /\ poly'.p.num = poly.p.num + 1
          => /\ SameValue(poly'.p.lat0, poly.p.lat0)
             /\ SameValue(poly'.p.lon0, poly.p.lon0)
     /\ \A pt \in PolyPts :
          /\ FirstPointStep(pt[1], pt[2])
               => /\ SameValue(poly'.p.lat0, pt[1]) /\ SameValue(poly'.p.lon0, pt[2])
                  /\ CurrentVertex(pt[1], pt[2])
          /\ AddPointStep(pt[1], pt[2]) => CurrentVertex(pt[1], pt[2])
     /\ \A azi \in PolyAzis, s \in PolyDists :
          AddEdgeStep(azi, s)
            => CurrentVertex(PolyDirect(poly.g, poly.p.lat, poly.p.lon, azi, s).lat2,
                             PolyDirect(poly.g, poly.p.lat, poly.p.lon, azi, s).lon2)
     /\ out'.op = "compute" /\ ~poly'.p.polyline /\ poly'.p.num >= 2
          => /\ out'.ret = poly'.p.num
             /\ SameValue(out'.pP, ClosedPerimeter(poly'.g, poly'.p))]_vars

\* geod_polygon_compute has closed a polygon of MaxNum vertices, the last
\* of them away from the first.
C18_Witness ==
  /\ out.op = "compute" /\ ~poly.p.polyline /\ poly.p.num = MaxNum
  /\ ~Eq(poly.p.lon, poly.p.lon0) /\ ~Eq(poly.p.lat, poly.p.lat0)
  /\ Eq(out.pP, ClosedPerimeter(poly.g, poly.p)) /\ Gt(out.pP, poly.p.P[1])

\* C19: an accumulator initialised as a polyline keeps A and crossings at
\* 0 through every addition, and geod_polygon_compute,
\* geod_polygon_testpoint and geod_polygon_testedge leave the location of
\* the area as the caller had it.
C19_PolylineKeepsArea ==
  poly.p.polyline =>
    /\ poly.p.A = accini /\ poly.p.crossings = 0
    /\ out.op \in {"compute", "testpoint", "testedge"} => out.pA = PolyOut0.pA

\* A polyline of MaxNum vertices with a perimeter, tested for one more
\* edge.
C19_Witness ==
  /\ poly.p.polyline /\ poly.p.num = MaxNum /\ Gt(poly.p.P[1], Zero)
  /\ out.op = "testedge" /\ Gt(out.pP, poly.p.P[1]) /\ out.pA = PolyOut0.pA

\* C20: a pass of the Newton loop that goes round again takes the Newton
\* update only if numit < maxit1, dv > 0, |dalp1| < pi and the updated
\* sin(alp1) is positive, and then moves the estimate by dalp1; in every
\* other case the next estimate is the midpoint of the bracket as the pass
\* updated it.  From the pass numit = maxit1 on the derivative is not asked
\* of Lambda12 and every update is a bisection.
C20_NewtonOrBisect ==
  [][nw.pc = "loop" /\ nw'.pc = "loop" =>
       LET newton == /\ nw.numit < maxit1
                     /\ Gt(nw'.dv, Zero)
                     /\ Abs(nw'.dalp1) < AlpN
                     /\ nw.alp1 + nw'.dalp1 > 0 /\ nw.alp1 + nw'.dalp1 < AlpN
       IN /\ nw'.numit = nw.numit + 1
          /\ nw'.step = (IF newton THEN "newton" ELSE "bisect")
          /\ newton => nw'.alp1 = nw.alp1 + nw'.dalp1
          /\ ~newton => /\ nw'.alp1 = (nw'.alp1a + nw'.alp1b) \div 2
                        /\ nw'.alp1a = Bracket(nw, nw'.v).a
                        /\ nw'.alp1b = Bracket(nw, nw'.v).b
          /\ nw'.diffp = (nw.numit < maxit1)
          /\ nw.numit >= maxit1 => nw'.step = "bisect" /\ ~nw'.diffp]_vars

\* The loop goes round after a bisection past maxit1, for which the
\* derivative was not asked.
C20_Witness ==
  /\ nw.pc = "loop" /\ nw.numit > maxit1 /\ nw.step = "bisect" /\ ~nw.diffp

\* The threshold a pass of the loop compares |v| with, and the pass leaving
\* the loop on that comparison: it is not at the cap and is not stopped by
\* tripb.
Threshold(early, late) == Mul(D(IF nw.tripn THEN late ELSE early), tol0)

ThresholdPass == nw.pc = "loop" /\ ~nw.tripb /\ nw.numit < maxit2

\* C21 as stated: the looser threshold 8 tol0 applies to the early passes
\* and the tighter one, tol0, once a Newton step has been taken from a
\* residual |v| <= 16 tol0.
C21_LooseEarly ==
  [][ThresholdPass /\ nw' # nw =>
       (nw'.pc = "done") = ~Ge(fabs(nw'.v), Threshold(8, 1))]_vars

\* C21 amended: the tighter threshold tol0 applies to a pass entered with
\* tripn clear, the looser one, 8 tol0, to a pass entered with tripn set;
\* a pass sets tripn when it takes a Newton step from a residual
\* |v| <= 16 tol0 and clears it when it takes any other step.
C21_TightEarly ==
  [][ThresholdPass /\ nw' # nw =>
       /\ (nw'.pc = "done") = ~Ge(fabs(nw'.v), Threshold(1, 8))
       /\ nw'.pc = "loop" =>
            nw'.tripn = (nw'.step = "newton" /\ Le(fabs(nw'.v), Mul(D(16), tol0)))]_vars

\* The loop was left with a residual between the two thresholds, after a
\* Newton step that set tripn.
C21_Witness ==
  /\ nw.pc = "done" /\ nw.tripn /\ ~nw.tripb /\ nw.numit < maxit2
  /\ Ge(fabs(nw.v), tol0) /\ Lt(fabs(nw.v), Mul(D(8), tol0))

---------------------------------------------------------------------------
(* The cases of geod_geninverse_int (geodesic.c, 785-949), in the order    *)
(* the code tries them.                                                    *)
(*                                                                         *)
(* nw holds the locals the tests read.  The doubles of the model have no   *)
(* latitude between the equator and the pole but those of the order of     *)
(* tiny, so the canonical point 1 is drawn from the pole, the equator, a   *)
(* NaN and a point with sbet1 = -tiny that stands for the latitudes        *)
(* between; the tests read lat1 == -qd and sbet1 == 0 alone.  Lengths,     *)
(* InverseStart and the Newton loop are not evaluated: the cases are run   *)
(* for every value they can hand back, a NaN where an input is one.  The   *)
(* loop evaluates Lambda12 between 1 and maxit2 + 1 times.                 *)

\* lat1 and sbet1 of the canonical point 1.
CasePoints ==
  {<<Neg(Deg(qd)), Neg(One)>>, <<Neg(tiny), Neg(tiny)>>, <<NegZero, NegZero>>,
   <<NaN, NaN>>}

CaseSlam12 == {Zero, One, NaN}

\* The flattenings: a sphere and an oblate ellipsoid.
CaseF == {Zero, tiny}

\* lon12s = 180 - lon12: coincident with the antimeridian, and away from it.
CaseLon12s == {Zero, Deg(qd)}

CaseHasNaN(s) == s.sbet1.nan \/ s.slam12.nan

\* 798-799: the sig12 of the meridional case, below and above 1 radian.
CaseMerSig12(s) == IF CaseHasNaN(s) THEN {NaN} ELSE {Zero, Deg(qd)}

\* 800-804: the m12x that Lengths hands back.
CaseMerM12x(s) == IF CaseHasNaN(s) THEN {NaN} ELSE {Neg(One), Zero, One}

\* 1223-1383: the sig12 that InverseStart returns: -1, or the atan2 of a
\* short line.
CaseStartSig12(s) == IF CaseHasNaN(s) THEN {Neg(One)} ELSE {Neg(One), Zero, tiny}

CasesInit ==
  /\ nw \in {[pc |-> "meridian", lat1 |-> p[1], sbet1 |-> p[2], slam12 |-> l,
              f |-> f, lon12s |-> s, meridian |-> FALSE,
              mer |-> Unset, start |-> Unset, evals |-> 0, path |-> "none"] :
               p \in CasePoints, l \in CaseSlam12, f \in CaseF, s \in CaseLon12s}
  /\ poly = Idle /\ line = Idle /\ out = Idle

\* 785: meridian = lat1 == -qd || slam12 == 0.
MeridianTest(s) == Eq(s.lat1, Neg(Deg(qd))) \/ Eq(s.slam12, Zero)

\* 816: the meridional result is kept.
MeridianKept(sig12, m12x) == LtOneRadian(sig12) \/ Ge(m12x, Zero)

\* 829-832.
EquatorTest(s) ==
  /\ ~s.meridian
  /\ Eq(s.sbet1, Zero)
  /\ Le(s.f, Zero) \/ Ge(s.lon12s, Mul(s.f, Deg(hd)))

\* The short line taken for a positive sig12 alone.
ShortLine_Positive(sig12) == Gt(sig12, Zero)

\* 855: if (sig12 >= 0).
ShortLine(sig12) == Ge(sig12, Zero)

\* 785-827: the meridional case.
CaseMeridian ==
  /\ nw.pc = "meridian"
  /\ IF MeridianTest(nw)
     THEN \E sig12 \in CaseMerSig12(nw), m12x \in CaseMerM12x(nw) :
            nw' = IF MeridianKept(sig12, m12x)
                  THEN [nw EXCEPT !.pc = "done", !.meridian = TRUE,
                                  !.mer = [sig12 |-> sig12, m12x |-> m12x],
                                  !.path = "meridian"]
                  ELSE [nw EXCEPT !.pc = "equator", !.meridian = FALSE,
                                  !.mer = [sig12 |-> sig12, m12x |-> m12x]]
     ELSE nw' = [nw EXCEPT !.pc = "equator"]
  /\ UNCHANGED <<poly, line, out>>

\* 829-841: the equatorial case.
CaseEquator ==
  /\ nw.pc = "equator"
  /\ nw' = IF EquatorTest(nw)
           THEN [nw EXCEPT !.pc = "done", !.path = "equator"]
           ELSE [nw EXCEPT !.pc = "start"]
  /\ UNCHANGED <<poly, line, out>>

\* 843-862: InverseStart, and the short line.
CaseInverseStart ==
  /\ nw.pc = "start"
  /\ \E sig12 \in CaseStartSig12(nw) :
       nw' = IF ShortLine(sig12)
             THEN [nw EXCEPT !.pc = "done", !.start = sig12, !.path = "short"]
             ELSE [nw EXCEPT !.pc = "loop", !.start = sig12]
  /\ UNCHANGED <<poly, line, out>>

\* 864-949: the general case.
CaseNewton ==
  /\ nw.pc = "loop"
  /\ \E n \in 1 .. maxit2 + 1 :
       nw' = [nw EXCEPT !.pc = "done", !.evals = n, !.path = "newton"]
  /\ UNCHANGED <<poly, line, out>>

NextCases == CaseMeridian \/ CaseEquator \/ CaseInverseStart \/ CaseNewton

SpecCases == CasesInit /\ [][NextCases]_vars

\* The meridional case was tried and gave the result up; on numbers, it
\* did so with sig12 >= 1 and a negative reduced length.
MeridianDeclined == nw.mer # Unset /\ ~nw.meridian

MeridianDeclinedNegative ==
  /\ MeridianDeclined
  /\ ~LtOneRadian(nw.mer.sig12) /\ ~nw.mer.sig12.nan /\ Lt(nw.mer.m12x, Zero)

\* The result comes from one case, the first in the order meridian,
\* equatorial, short line, general whose test holds; Lambda12 is evaluated
\* in the general case alone, which InverseStart precedes with a negative
\* sig12; the short line follows an InverseStart that returned sig12 >= 0.
\* declined is the way the meridional case gives the result up.
CasesInOrder(declined) ==
  nw.pc = "done" =>
    /\ nw.path \in {"meridian", "equator", "short", "newton"}
    /\ nw.path = "meridian" => MeridianTest(nw) /\ ~declined
    /\ nw.path # "meridian" => ~MeridianTest(nw) \/ declined
    /\ nw.path = "equator" => EquatorTest(nw) /\ nw.start = Unset
    /\ nw.path \in {"short", "newton"} => ~EquatorTest(nw) /\ nw.start # Unset
    /\ nw.path = "short" => Ge(nw.start, Zero) /\ nw.evals = 0
    /\ nw.path = "newton" => Lt(nw.start, Zero) /\ nw.evals >= 1
    /\ nw.evals >= 1 => nw.path = "newton"

\* C22 as stated, for every input: one of the four cases in their order,
\* the meridional case giving the result up only with sig12 >= 1 and a
\* negative reduced length.
C22_CasesEveryInput == CasesInOrder(MeridianDeclinedNegative)

\* C22 amended: the meridional case gives the result up when neither
\* sig12 < 1 nor m12x >= 0 holds, which is so for a NaN as well; the rest
\* is as stated.
C22_CasesInOrder ==
  /\ CasesInOrder(MeridianDeclined)
  /\ MeridianDeclined = (nw.mer # Unset /\ ~MeridianKept(nw.mer.sig12, nw.mer.m12x))
  /\ nw.evals = 0 \/ nw.pc = "done"

\* The general case after the meridional case gave the result up for a
\* negative reduced length, the equatorial case did not apply and
\* InverseStart returned -1.
C22_Witness ==
  /\ nw.pc = "done" /\ nw.path = "newton" /\ nw.evals = maxit2 + 1
  /\ MeridianDeclinedNegative /\ ~EquatorTest(nw) /\ Lt(nw.start, Zero)

---------------------------------------------------------------------------
(* The equatorial case of the inverse solver. *)

\* out holds an inverse problem, of any inputs.
InverseCalled == out.op \in {"inverse", "inverse_swapped", "inverse_of_direct"}

\* 829-832: the guard on the flattening.
FlatteningGuard ==
  Le(Sphere.f, Zero) \/ Ge(out.int.bet.lon12s, Mul(Sphere.f, Deg(hd)))

\* The meridional case produced the result.
MeridianProduced ==
  /\ out.int.mer # Unset
  /\ LtOneRadian(out.int.mer.sig12) \/ Ge(out.int.mer.m12x, Zero)

---------------------------------------------------------------------------
(* The arc length the inverse solver returns. *)

\* a12 is in [0, 180] degrees.
ArcInRange(a12) == Ge(a12, Zero) /\ Le(a12, Deg(hd))

\* Sines and cosines of sig12 as the meridional and the general case form
\* them, and of the short line of InverseStart: the pairs of which one
\* absorbs the other.
ArcParts == {Neg(One), Neg(tiny), NegZero, Zero, tiny, One}

ArcPairs ==
  {p \in ArcParts \X ArcParts : p[1].m = 0 \/ p[2].m = 0 \/ p[1].k # p[2].k}

\* 818, 859 and 947: a12 = sig12 / degree, of a sig12 limited to [0, pi],
\* and of the atan2(ssig12, csig12) of a short line, ssig12 being a hypot.
ArcsInRange ==
  \A p \in ArcPairs :
    /\ ArcInRange(Div(Sig12Of(p[1], p[2]), degree))
    /\ ArcInRange(Div(atan2(hypot(p[1], Zero), p[2]), degree))

---------------------------------------------------------------------------
(* The capabilities of a line. *)

\* The bit of OUT_ALL that stands for an output location.
OutBit(n) ==
  CASE n = "lat2" -> "LATITUDE" [] n = "lon2" -> "LONGITUDE"
    [] n = "azi2" -> "AZIMUTH" [] n = "s12" -> "DISTANCE"
    [] n = "m12" -> "REDUCEDLENGTH" [] n \in {"M12", "M21"} -> "GEODESICSCALE"
    [] n = "S12" -> "AREA"

\* The locations the last call of geod_genposition stored to: those that
\* hold a value when the call is made on locations that hold none.
Stored ==
  LET c == out.call
      r == geod_genposition(line, c.flags, c.s12_a12, c.ptrs, [n \in Ptrs |-> Unset])
  IN [n \in Ptrs |-> IF r.out[n] = Unset THEN Unset ELSE r.out[n]]

PositionFailed ==
  ~(Has(out.call.flags, GEOD_ARCMODE) \/ "DISTANCE_IN" \in line.caps)

\* The series a line holds: the arrays and the sums geod_lineinit_int
\* stored under the CAP_ bit.
SeriesHeld ==
  (IF line.A1m1 # Unset /\ line.C1a # UnsetArr(nC1) THEN CAP_C1 ELSE {}) \cup
  (IF line.C1pa # UnsetArr(nC1p) THEN CAP_C1p ELSE {}) \cup
  (IF line.A2m1 # Unset /\ line.C2a # UnsetArr(nC2) THEN CAP_C2 ELSE {}) \cup
  (IF line.A3c # Unset /\ line.C3a # UnsetArr(nC3 - 1) THEN CAP_C3 ELSE {}) \cup
  (IF line.A4 # Unset /\ line.C4a # UnsetArr(nC4) THEN CAP_C4 ELSE {})

\* C25: geod_genposition stores to a location if and only if the call did
\* not fail, the pointer is not null and the bit of the output is in the
\* caps of the line, and leaves every other location as it was.  The caps
\* of a line are those given (GEOD_DISTANCE_IN | GEOD_LONGITUDE for 0)
\* with latitude, azimuth and the unrolling of the longitude, and the line
\* holds the series whose CAP_ bit is in them, and no other.
C25_CapsGateOutputs ==
  /\ out.call.op = "genposition" =>
        \A n \in Ptrs :
          /\ (Stored[n] # Unset) =
               (~PositionFailed /\ n \in out.call.ptrs /\ OutBit(n) \in line.caps)
          /\ out.loc[n] = IF Stored[n] # Unset THEN Stored[n] ELSE out.call.before[n]
  /\ out.call.op = "lineinit" =>
        /\ line.caps =
             (IF out.call.caps # {} THEN out.call.caps
              ELSE GEOD_DISTANCE_IN \cup GEOD_LONGITUDE)
             \cup GEOD_LATITUDE \cup GEOD_AZIMUTH \cup GEOD_LONG_UNROLL
  /\ SeriesHeld = line.caps \cap CAP_ALL

\* A call with every pointer on a line made for distance and azimuth:
\* azi2 and s12 are stored and the longitude is left as an earlier call
\* on the line found it.
C25_Witness ==
  /\ out.call.op = "genposition" /\ out.call.ptrs = Ptrs /\ ~PositionFailed
  /\ "DISTANCE" \in line.caps /\ "LONGITUDE" \notin line.caps
  /\ SeriesHeld = CAP_C1
  /\ Stored["s12"] # Unset /\ Stored["lon2"] = Unset
  /\ out.loc["lon2"] = out.call.before["lon2"]
  /\ out.calls = MaxCalls

---------------------------------------------------------------------------
(* The crossing counts of an edge: transit and transitdirect (geodesic.c,  *)
(* 1748-1768), on the longitudes of its ends.                              *)

\* The longitudes run from -MaxCross to MaxCross quarter turns.
MaxCross == 12

\* The longitudes that are model doubles in this range, with -0 and +-tiny.
CrossLons ==
  {Fl(D(i)) : i \in (0 - MaxCross) .. MaxCross} \cup {NegZero, tiny, Neg(tiny)}

CrossInit ==
  /\ out \in {[op |-> "edge", lon1 |-> a, lon2 |-> b, ret |-> 0] :
                a \in CrossLons, b \in CrossLons}
  /\ nw = Idle /\ poly = Idle /\ line = Idle

\* transit(lon1, lon2), as geod_polygon_addpoint calls it.
Transit ==
  /\ out.op = "edge"
  /\ out' = [out EXCEPT !.op = "transit", !.ret = transit(out.lon1, out.lon2)]
  /\ UNCHANGED <<nw, poly, line>>

\* transitdirect(lon1, lon2), as geod_polygon_addedge calls it.
TransitDirect ==
  /\ out.op = "edge"
  /\ out' = [out EXCEPT !.op = "transitdirect",
                        !.ret = transitdirect(out.lon1, out.lon2)]
  /\ UNCHANGED <<nw, poly, line>>

NextCross == Transit \/ TransitDirect

SpecCross == CrossInit /\ [][NextCross]_vars

\* floor(lon / 360) of a finite longitude.
FloorTurns(lon) ==
  IF lon.m = 0 THEN 0
  ELSE IF lon.k > 0 THEN (IF lon.neg THEN -1 ELSE 0)
  ELSE SV(lon) \div (td \div qd)

\* C26: transitdirect(lon1, lon2) is -1, 0 or 1 and is odd exactly when
\* floor(lon2 / 360) - floor(lon1 / 360) is, for negative longitudes and
\* whole multiples of 360 as for the others.
C26_TransitDirectParity ==
  out.op = "transitdirect" =>
    /\ out.ret \in {-1, 0, 1}
    /\ out.ret % 2 = (FloorTurns(out.lon2) - FloorTurns(out.lon1)) % 2
    /\ out.ret = (FloorTurns(out.lon2) % 2) - (FloorTurns(out.lon1) % 2)

\* From -360 degrees, a whole multiple of 360 that is negative, to 720.
C26_Witness ==
  /\ out.op = "transitdirect"
  /\ Eq(out.lon1, Neg(Deg(td))) /\ Eq(out.lon2, Deg(2 * td))
  /\ out.ret = -1

---------------------------------------------------------------------------
(* geod_polygon_addedge on the accumulators the callers reach. *)

\* What geod_polygon_addedge(azi, s) makes of the accumulator.
EdgeAdded(azi, s) == geod_polygon_addedge(poly.g, poly.p, azi, s)

\* The end of the edge as geod_gendirect gives it, the longitude unrolled.
EdgeEnd(azi, s) == PolyDirect(poly.g, poly.p.lat, poly.p.lon, azi, s)

\* C27: geod_polygon_addedge leaves an accumulator without vertices as it
\* is; on one with a vertex it adds 1 to num and s to the perimeter, makes
\* the end of the edge, its longitude unrolled, the current vertex and
\* leaves the first vertex.
C27_AddEdgeFrame ==
  \A azi \in PolyAzis, s \in PolyDists :
    IF poly.p.num = 0
    THEN EdgeAdded(azi, s) = poly.p
    ELSE /\ EdgeAdded(azi, s).num = poly.p.num + 1
         /\ EdgeAdded(azi, s).P = accadd(poly.p.P, s)
         /\ SameValue(EdgeAdded(azi, s).lat, EdgeEnd(azi, s).lat2)
         /\ SameValue(EdgeAdded(azi, s).lon, EdgeEnd(azi, s).lon2)
         /\ EdgeAdded(azi, s).lat0 = poly.p.lat0
         /\ EdgeAdded(azi, s).lon0 = poly.p.lon0
         /\ EdgeAdded(azi, s).polyline = poly.p.polyline

\* Two edges added to a first vertex on the equator: the current vertex is
\* past 180 degrees of longitude, the first one is where it was.
C27_Witness ==
  /\ poly.p.num = MaxNum /\ Gt(poly.p.lon, Deg(hd)) /\ Eq(poly.p.lon0, Zero)
  /\ Gt(poly.p.P[1], D(5))
  /\ \E azi \in PolyAzis, s \in PolyDists :
       EdgeAdded(azi, s).num = MaxNum + 1 /\ Gt(EdgeAdded(azi, s).lon, poly.p.lon)

\* C28 as stated: transit(lon1, lon2) = -transit(lon2, lon1) for all finite
\* longitudes, those that reduce to 0 or +-180 and those 180 degrees apart
\* included.
C28_TransitAntisymmetric ==
  out.op = "transit" => out.ret = 0 - transit(out.lon2, out.lon1)

\* The edge from 180 to 360 degrees counts as a crossing eastwards, and
\* the edge back from 360 to 180 degrees as none.
C28_EastOnly ==
  /\ out.op = "transit" /\ Eq(out.lon1, Deg(hd)) /\ Eq(out.lon2, Deg(td))
  /\ out.ret = 1 /\ transit(out.lon2, out.lon1) = 0

---------------------------------------------------------------------------
(* The trial azimuths of the general case. *)

\* The guesses (salp1, calp1) that InverseStart may hold before its sanity
\* check: numbers of either sign and of both orders of magnitude, as far
\* as hypot is modelled for the pair.
StartGuesses ==
  {q \in {Neg(One), Neg(tiny), NegZero, Zero, tiny, One}
        \X {Neg(One), Neg(tiny), NegZero, Zero, tiny, One} :
     q[1].m = 0 \/ q[2].m = 0 \/ q[1].k # q[2].k}

\* What InverseStart hands back for the guess q and a negative sig12.
StartOf(q) ==
  StartFinish([shortline |-> FALSE, dnm |-> Zero], Neg(One), q[1], q[2], Zero, Zero)

\* A direction of the grid: its sine is positive, tiny at the two ends.
InGrid(a) == a \in 0 .. AlpN

\* C29: every estimate the general loop hands to Lambda12 has a positive
\* sine unless the starting one is NaN.  InverseStart returns salp1 > 0,
\* (1, 0) in place of a guess that is not positive; a Newton step is taken
\* only to a direction strictly inside (0, pi); a bisection takes the
\* midpoint of the two ends of the bracket, which start at sine tiny and
\* move only to an estimate that was evaluated.
C29_TrialInside ==
  [][nw.pc = "loop" =>
       /\ nw.alp1 = AlpNaN => nw.numit = 0 /\ nw.step = "start"
       /\ nw.alp1 # AlpNaN => InGrid(nw.alp1)
       /\ InGrid(nw.alp1a) /\ InGrid(nw.alp1b)
       /\ nw.numit = 0 =>
            /\ nw.alp1a = 0 /\ nw.alp1b = AlpN
            /\ \A q \in StartGuesses :
                 /\ Gt(StartOf(q).salp1, Zero)
                 /\ Le(q[1], Zero) =>
                      Eq(StartOf(q).salp1, One) /\ IsZero(StartOf(q).calp1)
       /\ nw'.pc = "loop" =>
            /\ nw'.step = "newton" => nw'.alp1 \in 1 .. AlpN - 1
            /\ nw'.step = "bisect" =>
                 /\ nw'.alp1 = (nw'.alp1a + nw'.alp1b) \div 2
                 /\ InGrid(nw'.alp1)
            /\ nw'.alp1a # nw.alp1a => nw'.alp1a = nw.alp1 /\ InGrid(nw.alp1)
            /\ nw'.alp1b # nw.alp1b => nw'.alp1b = nw.alp1 /\ InGrid(nw.alp1)]_vars

\* Both ends of the bracket have moved to estimates that were evaluated,
\* and the estimate is their midpoint, away from both.
C29_Witness ==
  /\ nw.pc = "loop" /\ nw.step = "bisect"
  /\ nw.alp1a > 0 /\ nw.alp1b < AlpN
  /\ nw.alp1a < nw.alp1 /\ nw.alp1 < nw.alp1b

---------------------------------------------------------------------------
(* The polygon accumulator and the static variables: geod_polygon_init    *)
(* and geod_polygon_clear read the static NaN, which Init assigns in the  *)
(* first geod_init.  line holds the static variables, poly the model and  *)
(* the accumulator, out the call made last.                               *)

\* 60-85: Init, from the assignment i on.
RECURSIVE InitFrom(_, _)
InitFrom(s, i) ==
  IF i > Len(InitOrder) THEN s
  ELSE InitFrom([s EXCEPT ![InitOrder[i]] = InitValue(InitOrder[i], s)], i + 1)

\* 299: if (!init) Init();
InitOnce(s) == IF s["init"] = 0 THEN InitFrom(s, 1) ELSE s

\* The struct before geod_polygon_init.
NoPolygon == [made |-> FALSE]

EmptyCall(op, polyline) == [op |-> op, polyline |-> polyline]

EmptyInit ==
  /\ line = StaticZero
  /\ poly = [g |-> NoModel, p |-> NoPolygon]
  /\ out = EmptyCall("none", FALSE)
  /\ nw = Idle

\* geod_init(&g, a, 0).
EmptyGeodInit ==
  /\ line' = InitOnce(line)
  /\ poly' = [poly EXCEPT !.g = Sphere]
  /\ out' = EmptyCall("geod_init", FALSE)
  /\ UNCHANGED nw

\* geod_polygon_init(&p, polylinep).
EmptyPolygonInit ==
  /\ \E polylinep \in BOOLEAN :
       /\ poly' = [poly EXCEPT !.p = PolygonMade(polylinep, line["NaN"])]
       /\ out' = EmptyCall("geod_polygon_init", polylinep)
  /\ UNCHANGED <<nw, line>>

\* geod_polygon_clear(&p) on an accumulator that was initialised.
EmptyPolygonClear ==
  /\ poly.p # NoPolygon
  /\ poly' = [poly EXCEPT !.p = PolygonCleared(@, line["NaN"])]
  /\ out' = EmptyCall("geod_polygon_clear", poly.p.polyline)
  /\ UNCHANGED <<nw, line>>

\* The model g with geod_geninverse from the current vertex of p to pt.
EdgeGeod(g, p, pt) ==
  [c2 |-> g.c2,
   inverse |->
     [q \in {<<p.lat, p.lon, pt[1], pt[2]>>} |->
        InverseOut(geod_geninverse(g, q[1], q[2], q[3], q[4], {"s12", "S12"},
                                   [n \in InvPtrs |-> Zero]).out)]]

\* geod_polygon_addpoint(&g, &p, lat, lon).
EmptyAddPoint ==
  /\ poly.p # NoPolygon /\ poly.g # NoModel /\ poly.p.num < MaxNum
  /\ \E pt \in PolyPts :
       poly' = [poly EXCEPT !.p = geod_polygon_addpoint(EdgeGeod(poly.g, @, pt), @,
                                                       pt[1], pt[2])]
  /\ out' = EmptyCall("geod_polygon_addpoint", poly.p.polyline)
  /\ UNCHANGED <<nw, line>>

NextEmpty ==
  EmptyGeodInit \/ EmptyPolygonInit \/ EmptyPolygonClear \/ EmptyAddPoint

SpecEmpty == EmptyInit /\ [][NextEmpty]_vars

\* C30 as stated: in any order of the calls, geod_polygon_init and
\* geod_polygon_clear leave lat, lon, lat0 and lon0 NaN, P and A zero, num
\* and crossings 0, and geod_polygon_clear leaves the polyline flag; also
\* when geod_polygon_init is called before the first geod_init.
C30_EmptyState ==
  out.op \in {"geod_polygon_init", "geod_polygon_clear"} =>
    /\ poly.p.lat.nan /\ poly.p.lon.nan /\ poly.p.lat0.nan /\ poly.p.lon0.nan
    /\ poly.p.P = accini /\ poly.p.A = accini
    /\ poly.p.num = 0 /\ poly.p.crossings = 0
    /\ poly.p.polyline = out.polyline

====
